---- MODULE Spec2Model ----
(***************************************************************************)
(* Model of package db (AWSDB): a connector with a reader and a writer     *)
(* pgx pool, the SQL classifier that routes Query/QueryRow, the concurrent *)
(* establishment of the pools by NewConnection, Ping and Close, and the    *)
(* token refresh the pools run before each connection they open.           *)
(***************************************************************************)
EXTENDS Integers, Sequences, FiniteSets, TLC

\* ---------------------------------------------------------------- bounds
MaxCalls == 2       \* NewConnection and Ping calls made on one connector
MaxSqlLen == 3      \* chunks (statement texts, separators) of one SQL string
MaxTicks == 3       \* times the clock is moved forward
MaxAttempts == 1    \* connection attempts in progress at a time
MaxOverlap == 2     \* the same, where the attempts of one pool overlap
MaxMsgLen == 2      \* pieces (runs of text, single characters) of one message

\* ------------------------------------------------------------- constants
Read == "read"
Write == "write"
ReadAndWrite == "readAndWrite"
InvalidRole == "not read or write"
NoProxy == ""

Roles == {Read, Write}
DBProxies == {Read, Write, ReadAndWrite, InvalidRole}

\* Secret names that are the same for both roles.
secretNamesShared == [r \in Roles |-> "core_iam_user_write"]

secretNames == [r \in Roles |->
                  IF r = Read THEN "core_iam_user_read" ELSE "core_iam_user_write"]

\* A nil *pgxpool.Pool; a pool is named by the connect task that opened it.
Nil == <<>>

\* ---------------------------------------------------------------- errors
\* An error value: its message, its identity (errors are matched by
\* identity), and the error it wraps (none here: a set with no element).
NoError == [msg |-> "", id |-> "nil", cause |-> {}]

ErrorsNew(m, ident) == [msg |-> m, id |-> ident, cause |-> {}]

\* fmt.Errorf with the verb %v: the text of err is formatted into the
\* message, the new error does not wrap err.
ErrorfV(prefix, err, ident) == [msg |-> prefix \o err.msg, id |-> ident, cause |-> {}]

\* An error made of err with a text before it, which wraps err: Unwrap
\* returns err.
WrapErr(prefix, err, ident) == [msg |-> prefix \o err.msg, id |-> ident, cause |-> {err}]

RECURSIVE ErrorsIs(_, _)
\* errors.Is(err, target): target is err or an error err wraps, directly or
\* through other errors.
ErrorsIs(err, target) ==
  \/ err = target
  \/ \E e \in err.cause : ErrorsIs(e, target)

ErrReaderNotCreated == ErrorsNew("reader pool not created", "ErrReaderNotCreated")
ErrWriterNotCreated == ErrorsNew("writer pool not created", "ErrWriterNotCreated")
ErrGettingProxy == ErrorsNew("error getting db proxy", "errors.New@Query")

\* ------------------------------------------------------------ classifier
\* A SQL string is a sequence of chunks: the text of one statement, the
\* statement terminator, or text that is not SQL.
SelectText == "SELECT 1"
InsertText == "INSERT INTO some_table(id) VALUES (1)"
CreateText == "CREATE TABLE some_table(id INT)"
Terminator == ";"
Garbage == "not sql"

StatementTexts == {SelectText, InsertText, CreateText}
Chunks == StatementTexts \cup {Terminator, Garbage}

SqlStrings == UNION {[1..n -> Chunks] : n \in 0..MaxSqlLen}

\* The statement tree of one statement text.
AST(text) == [kind |-> CASE text = SelectText -> "Select"
                         [] text = InsertText -> "Insert"
                         [] text = CreateText -> "CreateTable"]

SyntaxError == ErrorsNew("syntax error", "parser.Parse")

RECURSIVE ParseFrom(_, _, _)
\* Scans sql from chunk i; cur holds the statements of the segment read
\* since the last terminator.
ParseFrom(sql, i, cur) ==
  IF i > Len(sql)
    THEN IF Len(cur) > 1 THEN [err |-> SyntaxError, stmts |-> <<>>]
                         ELSE [err |-> NoError, stmts |-> cur]
    ELSE IF sql[i] = Garbage
      THEN [err |-> SyntaxError, stmts |-> <<>>]
      ELSE IF sql[i] = Terminator
        THEN IF Len(cur) > 1
               THEN [err |-> SyntaxError, stmts |-> <<>>]
               ELSE LET rest == ParseFrom(sql, i + 1, <<>>) IN
                    IF rest.err # NoError THEN rest
                    ELSE [err |-> NoError, stmts |-> cur \o rest.stmts]
        ELSE ParseFrom(sql, i + 1, Append(cur, [AST |-> AST(sql[i])]))

\* parser.Parse: the statements of sql, or a syntax error. Statements are
\* separated by the terminator; empty statements are skipped.
Parse(sql) == ParseFrom(sql, 1, <<>>)

CanWriteData(ast) == ast.kind \in {"Insert", "Delete", "Update"}
CanModifySchema(ast) == ast.kind \in {"CreateTable", "AlterTable", "DropTable"}

\* RangeStmts that looks at the first statement of the batch only.
RangeStmtsFirstOnly(stmts, i) ==
  IF i > Len(stmts) THEN Read
  ELSE IF CanWriteData(stmts[i].AST) \/ CanModifySchema(stmts[i].AST)
         THEN Write
         ELSE Read

RECURSIVE RangeStmts(_, _)
\* The loop of getProxyFromSQL over stmts, from index i.
RangeStmts(stmts, i) ==
  IF i > Len(stmts) THEN Read
  ELSE IF CanWriteData(stmts[i].AST) \/ CanModifySchema(stmts[i].AST)
         THEN Write
         ELSE RangeStmts(stmts, i + 1)

\* getProxyFromSQL that falls back to Read when sql does not parse.
getProxyFromSQLDefaultRead(sql) ==
  LET p == Parse(sql) IN
  IF p.err # NoError THEN [proxy |-> Read, err |-> NoError]
  ELSE [proxy |-> RangeStmts(p.stmts, 1), err |-> NoError]

\* A classification that answers ReadAndWrite for a batch of several
\* statements.
getProxyFromSQLBatch(sql) ==
  LET p == Parse(sql) IN
  IF p.err # NoError THEN [proxy |-> NoProxy, err |-> p.err]
  ELSE [proxy |-> IF Len(p.stmts) > 1 THEN ReadAndWrite ELSE RangeStmts(p.stmts, 1),
        err |-> NoError]

getProxyFromSQL(sql) ==
  LET p == Parse(sql) IN
  IF p.err # NoError THEN [proxy |-> NoProxy, err |-> p.err]
  ELSE [proxy |-> RangeStmts(p.stmts, 1), err |-> NoError]

\* ----------------------------------------------------------------- state
VARIABLES
  reader,    \* AWSDB.reader: Nil or the pool it points to
  writer,    \* AWSDB.writer
  pools,     \* the pools opened so far: pool -> its secret and its history
  ncalls,    \* NewConnection calls started so far
  main,      \* the caller: where it is, the call it is in and its result
  wg,        \* per call: the counter of its sync.WaitGroup
  errs,      \* per call: whether its channel errs is closed
  closer,    \* per call: the goroutine that waits on wg and closes errs
  task,      \* per call and role: the connect goroutine
  crashed,   \* the process has panicked
  last,      \* the last call of a query method and what it did
  clock,     \* time.Now() in seconds, and how often it has been moved forward
  ds,        \* per pool: the variables ds.exp and err its BeforeConnect captures
  attempt,   \* per pool: its connection attempts in progress
  ctx,       \* per call: ctx.Err() of the context the caller passed
  env,       \* the environment variables of the process
  out,       \* the last call of a function of package api or log and its result
  conn       \* package redis: the caller's RedisConn value and its last call

vars == <<reader, writer, pools, ncalls, main, wg, errs, closer, task, crashed, last,
          clock, ds, attempt, ctx, env, out, conn>>

\* The state of the connect-time token refresh.
tokenVars == <<clock, ds, attempt>>

\* The state of the packages api, log and redis.
utilVars == <<env, out, conn>>

Calls == 1..MaxCalls

\* The pool a connect task of call c for role r opens.
PoolIds == Calls \X Roles

NoPool == [state |-> "unopened", secret |-> "", pinged |-> FALSE]

NoTask == [pc |-> "none", err |-> NoError, hist |-> <<>>]

Blocked == [pc |-> "blocked", err |-> NoError, hist |-> <<>>]

\* A pgx.Row: a DBProxyError holding err, or the row of a pool whose Scan
\* returns err; NoRow stands for a nil interface value.
NoRow == [type |-> "nil", err |-> NoError]

NoCall == [op |-> "none", sql |-> <<>>, proxy |-> NoProxy, steps |-> <<>>,
           err |-> NoError, row |-> NoRow, work |-> "none", tx |-> "none"]

\* The zero value of time.Time, which ds.exp holds until a token is minted.
ZeroTime == 0

\* ds.exp = time.Now().Add(time.Second * 890)
TokenCache == 890

\* The authority accepts a token for 15 minutes from the time it was signed.
TokenLifetime == 15 * 60

\* cc.Config.Password: its text and, for a token, the time it was signed.
Password(text, signed) == [text |-> text, signed |-> signed]

\* password=foo in the connection string.
Placeholder == Password("foo", ZeroTime)

Attempts == 1..(IF MaxOverlap > MaxAttempts THEN MaxOverlap ELSE MaxAttempts)

\* The variables of a dbOpen call before its BeforeConnect has run.
NoSecret == [exp |-> ZeroTime, err |-> NoError]

\* A connection attempt that is not in progress.
NoAttempt == [pc |-> "idle", password |-> Placeholder]

StartClock == [now |-> ZeroTime + 1, ticks |-> 0]

\* context.Canceled and context.DeadlineExceeded
Canceled == ErrorsNew("context canceled", "context.Canceled")
DeadlineExceeded == ErrorsNew("context deadline exceeded", "context.DeadlineExceeded")

\* Contexts that are not done: ctx.Err() is nil.
Background == [c \in Calls |-> NoError]

\* os.LookupEnv(name): the value, a sequence of characters, and whether the
\* variable is set.
Unset == [val |-> <<>>, ok |-> FALSE]
Setenv(v) == [val |-> v, ok |-> TRUE]

EnvNames == {"LOG_LEVEL", "REDIS_HOST", "REDIS_PORT", "AWS_REGION"}

NoEnv == [n \in EnvNames |-> Unset]

\* No function of package api or log has been called.
NoOut == [op |-> "none"]

\* var conn RedisConn: the client is nil; no method has been called.
NoConn == [client |-> Nil, op |-> "none", args |-> <<>>, err |-> NoError, used |-> Nil]

\* The packages api, log and redis before any call.
UtilInit ==
  /\ env = NoEnv
  /\ out = NoOut
  /\ conn = NoConn

Init ==
  /\ reader = Nil
  /\ writer = Nil
  /\ pools = [p \in PoolIds |-> NoPool]
  /\ ncalls = 0
  /\ main = [pc |-> "idle", call |-> 0, dp |-> NoProxy, ret |-> NoError]
  /\ wg = [c \in Calls |-> 0]
  /\ errs = [c \in Calls |-> "none"]
  /\ closer = [c \in Calls |-> "none"]
  /\ task = [c \in Calls |-> [r \in Roles |-> NoTask]]
  /\ crashed = FALSE
  /\ last = NoCall
  /\ clock = StartClock
  /\ ds = [p \in PoolIds |-> NoSecret]
  /\ attempt = [p \in PoolIds |-> [a \in Attempts |-> NoAttempt]]
  /\ ctx = Background
  /\ UtilInit

\* The fields d.reader and d.writer by role.
Slot(r) == IF r = Read THEN reader ELSE writer

\* --------------------------------------------------------- NewConnection
ErrRoleNotProvided ==
  ErrorsNew(Read \o ", " \o Write \o ", or " \o ReadAndWrite \o " not provided",
            "fmt.Errorf@NewConnection")

\* A switch that starts both connect goroutines whichever role is asked
\* for.
RequestedBoth(dp) == IF dp \in {Read, Write, ReadAndWrite} THEN {Read, Write} ELSE {}

\* The roles a call of NewConnection(dp) starts a connect goroutine for.
Requested(dp) == CASE dp = Read -> {Read}
                   [] dp = Write -> {Write}
                   [] dp = ReadAndWrite -> {Read, Write}
                   [] OTHER -> {}

\* NewConnection up to the switch: make(chan error), wg.Add(1) and the
\* start of the goroutine that waits on wg and closes errs. The connect
\* goroutines of earlier calls that have ended exist no longer; those that
\* wait to send on the channel of a call that has returned stay blocked for
\* ever, and the error they hold is never seen.
NewConnection(dp) ==
  /\ ~crashed
  /\ main.pc = "idle"
  /\ last = NoCall
  /\ ncalls < MaxCalls
  /\ ncalls' = ncalls + 1
  /\ main' = [pc |-> "switch", call |-> ncalls + 1, dp |-> dp, ret |-> NoError]
  /\ wg' = [wg EXCEPT ![ncalls + 1] = 1]
  /\ errs' = [errs EXCEPT ![ncalls + 1] = "open"]
  /\ closer' = [closer EXCEPT ![ncalls + 1] = "wait"]
  /\ task' = [c \in Calls |-> [r \in Roles |->
                CASE task[c][r].pc = "done" -> NoTask
                  [] task[c][r].pc = "send" -> Blocked
                  [] OTHER -> task[c][r]]]
  /\ UNCHANGED <<reader, writer, pools, crashed, last>>
  /\ UNCHANGED tokenVars
  /\ UNCHANGED <<ctx, utilVars>>

\* The switch without its default case: any other role is handled as
\* ReadAndWrite.
NewConnectionSwitchNoDefault ==
  /\ ~crashed
  /\ main.pc = "switch"
  /\ LET c == main.call
         started == [r \in Roles |->
                      IF main.dp \notin Roles \/ r = main.dp
                        THEN [NoTask EXCEPT !.pc = "getValuesAWS"]
                        ELSE task[c][r]]
     IN
     IF main.dp \in {Read, Write}
       THEN /\ task' = [task EXCEPT ![c] = started]
            /\ main' = [main EXCEPT !.pc = "range"]
            /\ UNCHANGED wg
       ELSE /\ wg' = [wg EXCEPT ![c] = @ + 1]
            /\ task' = [task EXCEPT ![c] = started]
            /\ main' = [main EXCEPT !.pc = "range"]
  /\ UNCHANGED <<reader, writer, pools, ncalls, errs, closer, crashed, last>>
  /\ UNCHANGED tokenVars
  /\ UNCHANGED <<ctx, utilVars>>

\* The switch on dp: the goroutines of the requested roles are started; any
\* other role ends the call with an error.
NewConnectionSwitch ==
  /\ ~crashed
  /\ main.pc = "switch"
  /\ LET c == main.call
         started == [r \in Roles |->
                      IF r \in Requested(main.dp)
                        THEN [NoTask EXCEPT !.pc = "getValuesAWS"]
                        ELSE task[c][r]]
     IN
     IF main.dp \in {Read, Write}
       THEN /\ task' = [task EXCEPT ![c] = started]
            /\ main' = [main EXCEPT !.pc = "range"]
            /\ UNCHANGED wg
       ELSE IF main.dp = ReadAndWrite
         THEN /\ wg' = [wg EXCEPT ![c] = @ + 1]
              /\ task' = [task EXCEPT ![c] = started]
              /\ main' = [main EXCEPT !.pc = "range"]
         ELSE /\ wg' = [wg EXCEPT ![c] = @ - 1]
              /\ main' = [main EXCEPT !.pc = "idle", !.ret = ErrRoleNotProvided]
              /\ UNCHANGED task
  /\ UNCHANGED <<reader, writer, pools, ncalls, errs, closer, crashed, last>>
  /\ UNCHANGED tokenVars
  /\ UNCHANGED <<ctx, utilVars>>

\* for err := range errs, a value is received: the call returns the error.
\* The sender is released: it returns from connect, which runs its deferred
\* wg.Done().
NewConnectionReceive(r) ==
  /\ ~crashed
  /\ main.pc = "range"
  /\ task[main.call][r].pc = "send"
  /\ task' = [task EXCEPT ![main.call][r].pc = "done"]
  /\ wg' = [wg EXCEPT ![main.call] = @ - 1]
  /\ IF task[main.call][r].err # NoError
       THEN main' = [main EXCEPT !.pc = "idle", !.ret = task[main.call][r].err]
       ELSE UNCHANGED main
  /\ UNCHANGED <<reader, writer, pools, ncalls, errs, closer, crashed, last>>
  /\ UNCHANGED tokenVars
  /\ UNCHANGED <<ctx, utilVars>>

\* for err := range errs, the channel is closed: the call returns nil.
NewConnectionClosed ==
  /\ ~crashed
  /\ main.pc = "range"
  /\ errs[main.call] = "closed"
  /\ main' = [main EXCEPT !.pc = "idle", !.ret = NoError]
  /\ UNCHANGED <<reader, writer, pools, ncalls, wg, errs, closer, task, crashed, last>>
  /\ UNCHANGED tokenVars
  /\ UNCHANGED <<ctx, utilVars>>

\* go func() { wg.Wait(); close(errs) }(): wg.Wait returns when the counter
\* is zero, and errs is closed.
Closer(c) ==
  /\ ~crashed
  /\ closer[c] = "wait"
  /\ wg[c] = 0
  /\ errs' = [errs EXCEPT ![c] = "closed"]
  /\ closer' = [closer EXCEPT ![c] = "done"]
  /\ UNCHANGED <<reader, writer, pools, ncalls, main, wg, task, crashed, last>>
  /\ UNCHANGED tokenVars
  /\ UNCHANGED <<ctx, utilVars>>

\* --------------------------------------------------------------- connect
\* The identity of the error a step of the connect task of call c, role
\* dp produces.
\* getValuesAWS is not given the context; dbOpen and Ping are, and when the
\* context is done the error they return wraps ctx.Err().
StepErr(c, dp, step, m) ==
  IF step # "getValuesAWS" /\ ctx[c] # NoError
    THEN WrapErr(m \o ": ", ctx[c], step \o "@call" \o ToString(c) \o "/" \o dp)
    ELSE ErrorsNew(m, step \o "@call" \o ToString(c) \o "/" \o dp)

Fail(c, dp, step, m) ==
  [task[c][dp] EXCEPT !.pc = "send", !.err = StepErr(c, dp, step, m),
                      !.hist = Append(@, <<step, FALSE>>)]

Pass(c, dp, step, next) ==
  [task[c][dp] EXCEPT !.pc = next, !.hist = Append(@, <<step, TRUE>>)]

\* getValuesAWS that fetches the secret a second time when the first fetch
\* has failed.
getValuesAWSRetried(c, dp) ==
  /\ ~crashed
  /\ task[c][dp].pc = "getValuesAWS"
  /\ \E ok \in BOOLEAN :
       task' = [task EXCEPT ![c][dp] =
                  IF ok THEN Pass(c, dp, "getValuesAWS", "dbOpen")
                  ELSE IF task[c][dp].hist = <<>>
                    THEN [@ EXCEPT !.hist = Append(@, <<"getValuesAWS", FALSE>>)]
                    ELSE Fail(c, dp, "getValuesAWS", "secret not found")]
  /\ UNCHANGED <<reader, writer, pools, ncalls, main, wg, errs, closer, crashed, last>>
  /\ UNCHANGED tokenVars
  /\ UNCHANGED <<ctx, utilVars>>

\* rs.getValuesAWS(secretNames[dp]): the secret is fetched and decoded.
getValuesAWS(c, dp) ==
  /\ ~crashed
  /\ task[c][dp].pc = "getValuesAWS"
  /\ \E ok \in BOOLEAN :
       task' = [task EXCEPT ![c][dp] =
                  IF ok THEN Pass(c, dp, "getValuesAWS", "dbOpen")
                  ELSE Fail(c, dp, "getValuesAWS", "secret not found")]
  /\ UNCHANGED <<reader, writer, pools, ncalls, main, wg, errs, closer, crashed, last>>
  /\ UNCHANGED tokenVars
  /\ UNCHANGED <<ctx, utilVars>>

\* db.reader, err = rs.dbOpen(ctx) (db.writer for Write): the field is
\* assigned whatever dbOpen returns, a pool or nil with an error.
dbOpen(c, dp) ==
  /\ ~crashed
  /\ task[c][dp].pc = "dbOpen"
  /\ \E ok \in BOOLEAN :
       LET opened == IF ok THEN <<c, dp>> ELSE Nil IN
       /\ IF dp = Read THEN reader' = opened /\ UNCHANGED writer
                       ELSE writer' = opened /\ UNCHANGED reader
       /\ pools' = IF ok
                     THEN [pools EXCEPT ![<<c, dp>>] =
                             [state |-> "open", secret |-> secretNames[dp],
                              pinged |-> FALSE]]
                     ELSE pools
       /\ task' = [task EXCEPT ![c][dp] =
                     IF ok THEN Pass(c, dp, "dbOpen", "Ping")
                     ELSE Fail(c, dp, "dbOpen", "failed to connect")]
       /\ ds' = IF ok
                  THEN [ds EXCEPT ![<<c, dp>>] =
                          [exp |-> clock.now + TokenCache, err |-> NoError]]
                  ELSE ds
  /\ UNCHANGED <<ncalls, main, wg, errs, closer, crashed, last, clock, attempt>>
  /\ UNCHANGED <<ctx, utilVars>>

\* db.reader.Ping(ctx) (db.writer for Write): the field is read again; a nil
\* pool makes the goroutine panic. After a successful ping connect logs and
\* returns, which runs its deferred wg.Done().
connectPing(c, dp) ==
  /\ ~crashed
  /\ task[c][dp].pc = "Ping"
  /\ IF Slot(dp) = Nil
       THEN /\ crashed' = TRUE
            /\ UNCHANGED <<pools, task, wg>>
       ELSE /\ \E ok \in BOOLEAN :
                 /\ pools' = IF ok THEN [pools EXCEPT ![Slot(dp)].pinged = TRUE]
                                   ELSE pools
                 /\ task' = [task EXCEPT ![c][dp] =
                               IF ok THEN Pass(c, dp, "Ping", "done")
                               ELSE Fail(c, dp, "Ping", "ping failed")]
                 /\ wg' = IF ok THEN [wg EXCEPT ![c] = @ - 1] ELSE wg
            /\ UNCHANGED crashed
  /\ UNCHANGED <<reader, writer, ncalls, main, errs, closer, last>>
  /\ UNCHANGED tokenVars
  /\ UNCHANGED <<ctx, utilVars>>

\* --------------------------------------------------------------- context
\* The context the caller passed to call c is cancelled, or its deadline
\* passes: from then on ctx.Err() is e.
CtxDone(c, e) ==
  /\ ~crashed
  /\ c <= ncalls
  /\ ctx[c] = NoError
  /\ ctx' = [ctx EXCEPT ![c] = e]
  /\ UNCHANGED <<reader, writer, pools, ncalls, main, wg, errs, closer, task, crashed, last>>
  /\ UNCHANGED tokenVars
  /\ UNCHANGED utilVars

\* ------------------------------------------------------------------ Ping
\* The value of main.dp while the caller is in Ping or has returned from it.
PingCall == "Ping"

\* Ping: errs := make(chan error); var wg sync.WaitGroup; the closing
\* goroutine is started while the counter of wg is still zero.
Ping ==
  /\ ~crashed
  /\ main.pc = "idle"
  /\ last = NoCall
  /\ ncalls < MaxCalls
  /\ ncalls' = ncalls + 1
  /\ main' = [pc |-> "pingReader", call |-> ncalls + 1, dp |-> PingCall, ret |-> NoError]
  /\ wg' = [wg EXCEPT ![ncalls + 1] = 0]
  /\ errs' = [errs EXCEPT ![ncalls + 1] = "open"]
  /\ closer' = [closer EXCEPT ![ncalls + 1] = "start"]
  /\ task' = [c \in Calls |-> [r \in Roles |->
                CASE task[c][r].pc = "done" -> NoTask
                  [] task[c][r].pc = "send" /\ closer[c] \in {"wait", "start", "waiting"} -> Blocked
                  [] OTHER -> task[c][r]]]
  /\ UNCHANGED <<reader, writer, pools, crashed, last>>
  /\ UNCHANGED tokenVars
  /\ UNCHANGED <<ctx, utilVars>>

\* if d.reader != nil { wg.Add(1); go d.pingProxy(ctx, Read, errs, &wg) }
\* and the same for d.writer; then the caller enters its range loop.
PingProbe(r) ==
  /\ ~crashed
  /\ main.pc = (IF r = Read THEN "pingReader" ELSE "pingWriter")
  /\ main' = [main EXCEPT !.pc = IF r = Read THEN "pingWriter" ELSE "pingRange"]
  /\ IF Slot(r) # Nil
       THEN /\ wg' = [wg EXCEPT ![main.call] = @ + 1]
            /\ task' = [task EXCEPT ![main.call][r] =
                          [pc |-> "pingProxy", err |-> NoError, hist |-> <<>>]]
       ELSE UNCHANGED <<wg, task>>
  /\ UNCHANGED <<reader, writer, pools, ncalls, errs, closer, crashed, last>>
  /\ UNCHANGED tokenVars
  /\ UNCHANGED <<ctx, utilVars>>

\* for err := range errs, a probe hands over its error: Ping returns it. The
\* probe returns from pingProxy, which runs its deferred wg.Done().
PingReceive(r) ==
  /\ ~crashed
  /\ main.pc = "pingRange"
  /\ errs[main.call] = "open"
  /\ task[main.call][r].pc = "send"
  /\ task' = [task EXCEPT ![main.call][r].pc = "done"]
  /\ wg' = [wg EXCEPT ![main.call] = @ - 1]
  /\ main' = [main EXCEPT !.pc = "idle", !.ret = task[main.call][r].err]
  /\ UNCHANGED <<reader, writer, pools, ncalls, errs, closer, crashed, last>>
  /\ UNCHANGED tokenVars
  /\ UNCHANGED <<ctx, utilVars>>

\* for err := range errs, the channel is closed: Ping returns nil.
PingClosed ==
  /\ ~crashed
  /\ main.pc = "pingRange"
  /\ errs[main.call] = "closed"
  /\ main' = [main EXCEPT !.pc = "idle", !.ret = NoError]
  /\ UNCHANGED <<reader, writer, pools, ncalls, wg, errs, closer, task, crashed, last>>
  /\ UNCHANGED tokenVars
  /\ UNCHANGED <<ctx, utilVars>>

\* go func() { wg.Wait(); close(errs) }() of Ping. wg.Wait returns at once
\* when the counter is zero and waits otherwise; a waiter is woken when the
\* counter reaches zero, and panics when it finds that the counter has been
\* raised again before it has returned. Then errs is closed.
PingCloser(c) ==
  /\ ~crashed
  /\ \/ /\ closer[c] = "start"
        /\ closer' = [closer EXCEPT ![c] = IF wg[c] = 0 THEN "close" ELSE "waiting"]
        /\ UNCHANGED <<errs, crashed>>
     \/ /\ closer[c] = "waiting"
        /\ wg[c] = 0
        /\ closer' = [closer EXCEPT ![c] = "woken"]
        /\ UNCHANGED <<errs, crashed>>
     \/ /\ closer[c] = "woken"
        /\ IF wg[c] = 0
             THEN closer' = [closer EXCEPT ![c] = "close"] /\ UNCHANGED crashed
             ELSE crashed' = TRUE /\ UNCHANGED closer
        /\ UNCHANGED errs
     \/ /\ closer[c] = "close"
        /\ errs' = [errs EXCEPT ![c] = "closed"]
        /\ closer' = [closer EXCEPT ![c] = "done"]
        /\ UNCHANGED crashed
  /\ UNCHANGED <<reader, writer, pools, ncalls, main, wg, task, last>>
  /\ UNCHANGED tokenVars
  /\ UNCHANGED <<ctx, utilVars>>

\* pingProxy: d.reader.Ping(ctx) for Read, d.writer.Ping(ctx) for Write; an
\* error is sent on c, and the deferred wg.Done() runs when pingProxy
\* returns.
pingProxy(c, dp) ==
  /\ ~crashed
  /\ task[c][dp].pc = "pingProxy"
  /\ IF Slot(dp) = Nil
       THEN /\ crashed' = TRUE
            /\ UNCHANGED <<task, wg>>
       ELSE /\ \E ok \in BOOLEAN :
                 /\ ok => pools[Slot(dp)].state # "closed"
                 /\ task' = [task EXCEPT ![c][dp] =
                               IF ok THEN Pass(c, dp, "Ping", "done")
                               ELSE Fail(c, dp, "Ping", "ping failed")]
                 /\ wg' = IF ok THEN [wg EXCEPT ![c] = @ - 1] ELSE wg
            /\ UNCHANGED crashed
  /\ UNCHANGED <<reader, writer, pools, ncalls, main, errs, closer, last>>
  /\ UNCHANGED tokenVars
  /\ UNCHANGED <<ctx, utilVars>>

\* c <- err on a channel that has been closed: the goroutine panics.
PingSendClosed(c, dp) ==
  /\ ~crashed
  /\ task[c][dp].pc = "send"
  /\ errs[c] = "closed"
  /\ crashed' = TRUE
  /\ UNCHANGED <<reader, writer, pools, ncalls, main, wg, errs, closer, task, last>>
  /\ UNCHANGED tokenVars
  /\ UNCHANGED <<ctx, utilVars>>

\* --------------------------------------------------------- query methods
\* What a pool answers to a call: success or an error of its own.
PoolErr == ErrorsNew("conn closed", "pgxpool")
PoolAnswers == {NoError, PoolErr}

Classified == [pool |-> "none", call |-> "getProxyFromSQL"]
Dispatch(slot, method) == [pool |-> slot, call |-> method]

\* DBProxyError.Scan
Scan(row) == row.err

DBProxyError(err) == [type |-> "DBProxyError", err |-> err]

\* Query that uses the pool that exists when the selected one is absent.
QueryResultFallback(sql, answer) ==
  LET p == getProxyFromSQL(sql)
      r == [NoCall EXCEPT !.op = "Query", !.sql = sql, !.proxy = p.proxy,
                          !.steps = <<Classified>>]
      toReader == [r EXCEPT !.steps = Append(@, Dispatch("reader", "Query")),
                            !.err = answer]
      toWriter == [r EXCEPT !.steps = Append(@, Dispatch("writer", "Query")),
                            !.err = answer]
  IN
  IF p.err # NoError
    THEN [r EXCEPT !.err = ErrorfV("could not parse sql string: ", p.err,
                                   "fmt.Errorf@Query")]
    ELSE CASE p.proxy = Read ->
                IF reader # Nil THEN toReader
                ELSE IF writer # Nil THEN toWriter
                ELSE [r EXCEPT !.err = ErrReaderNotCreated]
           [] p.proxy = Write ->
                IF writer # Nil THEN toWriter
                ELSE IF reader # Nil THEN toReader
                ELSE [r EXCEPT !.err = ErrWriterNotCreated]
           [] OTHER -> [r EXCEPT !.err = ErrGettingProxy]

\* A Query that sends every statement that parses to the writer.
QueryResultOnWriter(sql, answer) ==
  LET p == getProxyFromSQL(sql)
      r == [NoCall EXCEPT !.op = "Query", !.sql = sql, !.proxy = p.proxy,
                          !.steps = <<Classified>>]
  IN
  IF p.err # NoError
    THEN [r EXCEPT !.err = ErrorfV("could not parse sql string: ", p.err,
                                   "fmt.Errorf@Query")]
    ELSE IF writer = Nil
      THEN [r EXCEPT !.err = ErrWriterNotCreated]
      ELSE [r EXCEPT !.steps = Append(@, Dispatch("writer", "Query")),
                     !.err = answer]

\* AWSDB.Query, given what a pool would answer.
QueryResult(sql, answer) ==
  LET p == getProxyFromSQL(sql)
      r == [NoCall EXCEPT !.op = "Query", !.sql = sql, !.proxy = p.proxy,
                          !.steps = <<Classified>>]
  IN
  IF p.err # NoError
    THEN [r EXCEPT !.err = ErrorfV("could not parse sql string: ", p.err,
                                   "fmt.Errorf@Query")]
    ELSE CASE p.proxy = Read ->
                IF reader = Nil
                  THEN [r EXCEPT !.err = ErrReaderNotCreated]
                  ELSE [r EXCEPT !.steps = Append(@, Dispatch("reader", "Query")),
                                 !.err = answer]
           [] p.proxy = Write ->
                IF writer = Nil
                  THEN [r EXCEPT !.err = ErrWriterNotCreated]
                  ELSE [r EXCEPT !.steps = Append(@, Dispatch("writer", "Query")),
                                 !.err = answer]
           [] OTHER -> [r EXCEPT !.err = ErrGettingProxy]

\* QueryRow that returns no row object when the selected pool is absent.
QueryRowResultNilRow(sql, answer) ==
  LET p == getProxyFromSQL(sql)
      r == [NoCall EXCEPT !.op = "QueryRow", !.sql = sql, !.proxy = p.proxy,
                          !.steps = <<Classified>>]
  IN
  IF p.err # NoError
    THEN [r EXCEPT !.row = DBProxyError(
                     ErrorfV("could not parse sql string: ", p.err,
                             "fmt.Errorf@QueryRow"))]
    ELSE CASE p.proxy = Read ->
                IF reader = Nil
                  THEN [r EXCEPT !.row = NoRow]
                  ELSE [r EXCEPT !.steps = Append(@, Dispatch("reader", "QueryRow")),
                                 !.row = [type |-> "pgx.Row", err |-> answer]]
           [] p.proxy = Write ->
                IF writer = Nil
                  THEN [r EXCEPT !.row = NoRow]
                  ELSE [r EXCEPT !.steps = Append(@, Dispatch("writer", "QueryRow")),
                                 !.row = [type |-> "pgx.Row", err |-> answer]]
           [] OTHER -> [r EXCEPT !.row = DBProxyError(
                          ErrorsNew("error getting db proxy", "errors.New@QueryRow"))]

\* AWSDB.QueryRow, given what Scan of a pool's row would return.
QueryRowResult(sql, answer) ==
  LET p == getProxyFromSQL(sql)
      r == [NoCall EXCEPT !.op = "QueryRow", !.sql = sql, !.proxy = p.proxy,
                          !.steps = <<Classified>>]
  IN
  IF p.err # NoError
    THEN [r EXCEPT !.row = DBProxyError(
                     ErrorfV("could not parse sql string: ", p.err,
                             "fmt.Errorf@QueryRow"))]
    ELSE CASE p.proxy = Read ->
                IF reader = Nil
                  THEN [r EXCEPT !.row = DBProxyError(ErrReaderNotCreated)]
                  ELSE [r EXCEPT !.steps = Append(@, Dispatch("reader", "QueryRow")),
                                 !.row = [type |-> "pgx.Row", err |-> answer]]
           [] p.proxy = Write ->
                IF writer = Nil
                  THEN [r EXCEPT !.row = DBProxyError(ErrWriterNotCreated)]
                  ELSE [r EXCEPT !.steps = Append(@, Dispatch("writer", "QueryRow")),
                                 !.row = [type |-> "pgx.Row", err |-> answer]]
           [] OTHER -> [r EXCEPT !.row = DBProxyError(
                          ErrorsNew("error getting db proxy", "errors.New@QueryRow"))]

\* Exec that selects the pool from the statement, as Query does.
ExecResultRouted(sql, answer) ==
  LET r == [NoCall EXCEPT !.op = "Exec", !.sql = sql]
      p == getProxyFromSQL(sql)
  IN
  IF p.err = NoError /\ p.proxy = Read /\ reader # Nil
    THEN [r EXCEPT !.steps = <<Dispatch("reader", "Exec")>>, !.err = answer]
    ELSE IF writer = Nil
      THEN [r EXCEPT !.err = ErrWriterNotCreated]
      ELSE [r EXCEPT !.steps = <<Dispatch("writer", "Exec")>>, !.err = answer]

\* AWSDB.Exec
ExecResult(sql, answer) ==
  LET r == [NoCall EXCEPT !.op = "Exec", !.sql = sql] IN
  IF writer = Nil
    THEN [r EXCEPT !.err = ErrWriterNotCreated]
    ELSE [r EXCEPT !.steps = <<Dispatch("writer", "Exec")>>, !.err = answer]

\* Begin that starts the transaction on the reader when there is no writer.
BeginResultOnReader(answer) ==
  LET r == [NoCall EXCEPT !.op = "Begin"] IN
  IF writer = Nil
    THEN IF reader = Nil
           THEN [r EXCEPT !.err = ErrWriterNotCreated]
           ELSE [r EXCEPT !.steps = <<Dispatch("reader", "Begin")>>, !.err = answer,
                          !.tx = IF answer = NoError THEN "open" ELSE "none"]
    ELSE [r EXCEPT !.steps = <<Dispatch("writer", "Begin")>>, !.err = answer,
                   !.tx = IF answer = NoError THEN "open" ELSE "none"]

\* AWSDB.Begin
BeginResult(answer) ==
  LET r == [NoCall EXCEPT !.op = "Begin"] IN
  IF writer = Nil
    THEN [r EXCEPT !.err = ErrWriterNotCreated]
    ELSE [r EXCEPT !.steps = <<Dispatch("writer", "Begin")>>, !.err = answer,
                   !.tx = IF answer = NoError THEN "open" ELSE "none"]

\* The work function and the errors of a transaction.
WorkErr == ErrorsNew("work failed", "f")

\* pgxpool.Pool.BeginFunc: begins a transaction, runs f, rolls back when f
\* returns an error and commits otherwise.
PoolBeginFunc(r, beginAnswer, fAnswer, commitAnswer) ==
  IF beginAnswer # NoError
    THEN [r EXCEPT !.err = beginAnswer]
    ELSE IF fAnswer # NoError
      THEN [r EXCEPT !.work = "invoked", !.tx = "rollback", !.err = fAnswer]
      ELSE [r EXCEPT !.work = "invoked", !.tx = "commit", !.err = commitAnswer]

\* AWSDB.BeginFunc
BeginFuncResult(beginAnswer, fAnswer, commitAnswer) ==
  LET r == [NoCall EXCEPT !.op = "BeginFunc"] IN
  IF writer = Nil
    THEN [r EXCEPT !.err = ErrWriterNotCreated]
    ELSE PoolBeginFunc([r EXCEPT !.steps = <<Dispatch("writer", "BeginFunc")>>],
                       beginAnswer, fAnswer, commitAnswer)

\* A query method is called by the caller, between its other calls; last
\* holds what the method did and returned until the caller has taken it.
Called(result) ==
  /\ ~crashed
  /\ main.pc = "idle"
  /\ last = NoCall
  /\ last' = result
  /\ UNCHANGED <<reader, writer, pools, ncalls, main, wg, errs, closer, task, crashed>>
  /\ UNCHANGED tokenVars
  /\ UNCHANGED <<ctx, utilVars>>

\* The pool field a dispatch names.
SlotNamed(s) == IF s = "reader" THEN reader ELSE writer

\* A pool that has been closed refuses every call with an error.
Answered(result, answer) ==
  \A i \in 1..Len(result.steps) :
    (/\ result.steps[i].pool # "none"
     /\ pools[SlotNamed(result.steps[i].pool)].state = "closed") => answer # NoError

Query(sql) ==
  \E answer \in PoolAnswers :
    Called(QueryResult(sql, answer)) /\ Answered(last', answer)

QueryRow(sql) ==
  \E answer \in PoolAnswers :
    Called(QueryRowResult(sql, answer)) /\ Answered(last', answer)

Exec(sql) ==
  \E answer \in PoolAnswers :
    Called(ExecResult(sql, answer)) /\ Answered(last', answer)

Begin ==
  \E answer \in PoolAnswers :
    Called(BeginResult(answer)) /\ Answered(last', answer)

BeginFunc ==
  \E beginAnswer \in PoolAnswers, fAnswer \in {NoError, WorkErr},
     commitAnswer \in PoolAnswers :
    /\ Called(BeginFuncResult(beginAnswer, fAnswer, commitAnswer))
    /\ Answered(last', beginAnswer)

\* pool.Close() as Close calls it, with the state the pool was in.
CloseDispatch(slot) ==
  [pool |-> slot, call |-> "Close", was |-> pools[SlotNamed(slot)].state]

\* Close without the nil checks: Close is called on both fields, and on a
\* nil pool it panics.
CloseResultUnchecked ==
  [steps |-> (IF reader # Nil THEN <<CloseDispatch("reader")>> ELSE <<>>)
             \o (IF reader # Nil /\ writer # Nil
                  THEN <<CloseDispatch("writer")>> ELSE <<>>),
   panics |-> reader = Nil \/ writer = Nil]

\* AWSDB.Close: the pools Close is called on, reader first, and whether
\* the call panics.
CloseResult ==
  [steps |-> (IF reader # Nil THEN <<CloseDispatch("reader")>> ELSE <<>>)
             \o (IF writer # Nil THEN <<CloseDispatch("writer")>> ELSE <<>>),
   panics |-> FALSE]

\* A Close that also empties the fields of the pools it has closed.
CloseAndForget ==
  /\ ~crashed
  /\ main.pc = "idle"
  /\ last = NoCall
  /\ crashed' = CloseResult.panics
  /\ last' = [NoCall EXCEPT !.op = "Close", !.steps = CloseResult.steps]
  /\ pools' = [p \in PoolIds |->
                IF \E i \in 1..Len(CloseResult.steps) :
                     SlotNamed(CloseResult.steps[i].pool) = p
                  THEN [pools[p] EXCEPT !.state = "closed"]
                  ELSE pools[p]]
  /\ reader' = Nil
  /\ writer' = Nil
  /\ UNCHANGED <<ncalls, main, wg, errs, closer, task>>
  /\ UNCHANGED tokenVars
  /\ UNCHANGED <<ctx, utilVars>>

\* Close: pgxpool.Pool.Close closes the pool under a sync.Once, so closing
\* a pool that is closed already does nothing.
Close ==
  /\ ~crashed
  /\ main.pc = "idle"
  /\ last = NoCall
  /\ crashed' = CloseResult.panics
  /\ last' = [NoCall EXCEPT !.op = "Close", !.steps = CloseResult.steps]
  /\ pools' = [p \in PoolIds |->
                IF \E i \in 1..Len(CloseResult.steps) :
                     SlotNamed(CloseResult.steps[i].pool) = p
                  THEN [pools[p] EXCEPT !.state = "closed"]
                  ELSE pools[p]]
  /\ UNCHANGED <<reader, writer, ncalls, main, wg, errs, closer, task>>
  /\ UNCHANGED tokenVars
  /\ UNCHANGED <<ctx, utilVars>>

\* The caller has taken the result of the call.
Returned ==
  /\ last # NoCall
  /\ last' = NoCall
  /\ UNCHANGED <<reader, writer, pools, ncalls, main, wg, errs, closer, task, crashed>>
  /\ UNCHANGED tokenVars
  /\ UNCHANGED <<ctx, utilVars>>

\* The connector after a NewConnection(dp) that succeeded on a new AWSDB:
\* the pools of the requested roles are installed and have answered a ping.
Established(dp) ==
  LET req == Requested(dp)
      n == IF dp = NoProxy THEN 0 ELSE 1
  IN
  /\ reader = IF Read \in req THEN <<1, Read>> ELSE Nil
  /\ writer = IF Write \in req THEN <<1, Write>> ELSE Nil
  /\ pools = [p \in PoolIds |->
               IF p[1] = 1 /\ p[2] \in req
                 THEN [state |-> "open", secret |-> secretNames[p[2]], pinged |-> TRUE]
                 ELSE NoPool]
  /\ ncalls = n
  /\ main = [pc |-> "idle", call |-> n, dp |-> dp, ret |-> NoError]
  /\ wg = [c \in Calls |-> 0]
  /\ errs = [c \in Calls |-> IF c <= n THEN "closed" ELSE "none"]
  /\ closer = [c \in Calls |-> IF c <= n THEN "done" ELSE "none"]
  /\ task = [c \in Calls |-> [r \in Roles |->
               IF c <= n /\ r \in req
                 THEN [pc |-> "done", err |-> NoError,
                       hist |-> << <<"getValuesAWS", TRUE>>, <<"dbOpen", TRUE>>,
                                   <<"Ping", TRUE>> >>]
                 ELSE NoTask]]
  /\ crashed = FALSE
  /\ last = NoCall
  /\ clock = StartClock
  /\ ds = [p \in PoolIds |->
            IF p[1] = 1 /\ p[2] \in req
              THEN [exp |-> StartClock.now + TokenCache, err |-> NoError]
              ELSE NoSecret]
  /\ attempt = [p \in PoolIds |-> [a \in Attempts |-> NoAttempt]]
  /\ ctx = Background
  /\ UtilInit

\* ---------------------------------------------------------------- token
\* A comparison that also holds at the instant u itself.
NotBefore(t, u) == t >= u

\* now.After(ds.exp)
After(t, u) == t > u

\* The error of the GetRDSAuthToken call of attempt a of pool p.
MintErr(p, a) ==
  ErrorsNew("failed to build auth token",
            "GetRDSAuthToken@" \o ToString(p[1]) \o "/" \o p[2] \o "#" \o ToString(a))

ConnectErr(p) ==
  ErrorsNew("failed to connect",
            "pgx.ConnectConfig@" \o ToString(p[1]) \o "/" \o p[2])

ParseConfigErr(p) ==
  ErrorsNew("cannot parse connection string",
            "pgxpool.ParseConfig@" \o ToString(p[1]) \o "/" \o p[2])

\* The authority accepts a password that is a token it signed less than
\* TokenLifetime ago.
Accepted(password) ==
  /\ password.text = "token"
  /\ clock.now < password.signed + TokenLifetime

\* The amounts of time that pass in one step of the clock: the margin
\* between the cached expiry and the lifetime of a token, and the time a
\* token is cached.
TimeSteps == {TokenLifetime - TokenCache, TokenCache}

\* Time passes.
Tick(d) ==
  /\ ~crashed
  /\ clock.ticks < MaxTicks
  /\ clock' = [now |-> clock.now + d, ticks |-> clock.ticks + 1]
  /\ UNCHANGED <<reader, writer, pools, ncalls, main, wg, errs, closer, task,
                 crashed, last, ds, attempt>>
  /\ UNCHANGED <<ctx, utilVars>>

\* db.reader, err = rs.dbOpen(ctx) as seen by the connect task of pool p:
\* the field is assigned the pool, or nil with the error e.
dbOpenReturns(p, e) ==
  LET opened == IF e = NoError THEN p ELSE Nil IN
  /\ IF p[2] = Read THEN reader' = opened /\ UNCHANGED writer
                    ELSE writer' = opened /\ UNCHANGED reader
  /\ task' = [task EXCEPT ![p[1]][p[2]] =
                IF e = NoError THEN Pass(p[1], p[2], "dbOpen", "Ping")
                ELSE [@ EXCEPT !.pc = "send", !.err = e,
                               !.hist = Append(@, <<"dbOpen", FALSE>>)]]

\* dbOpen up to pgxpool.ConnectConfig: the connection string is parsed, the
\* callbacks are set, and ConnectConfig creates the pool, which then opens
\* its first connection.
dbOpenConnectConfig(c, dp) ==
  /\ ~crashed
  /\ task[c][dp].pc = "dbOpen"
  /\ \E parsed \in BOOLEAN :
       IF parsed
         THEN /\ pools' = [pools EXCEPT ![<<c, dp>>] =
                             [state |-> "opening", secret |-> secretNames[dp],
                              pinged |-> FALSE]]
              /\ ds' = [ds EXCEPT ![<<c, dp>>] = NoSecret]
              /\ task' = [task EXCEPT ![c][dp].pc = "ConnectConfig"]
              /\ UNCHANGED <<reader, writer>>
         ELSE /\ dbOpenReturns(<<c, dp>>, ParseConfigErr(<<c, dp>>))
              /\ UNCHANGED <<pools, ds>>
  /\ UNCHANGED <<ncalls, main, wg, errs, closer, crashed, last, clock, attempt>>
  /\ UNCHANGED <<ctx, utilVars>>

\* A connection attempt of pool p ends with e. The first attempt of a pool
\* is made by ConnectConfig, which returns the pool when the attempt
\* succeeded and closes it otherwise; dbOpen returns what ConnectConfig
\* returns.
EndAttempt(p, a, e) ==
  /\ attempt' = [attempt EXCEPT ![p][a] = NoAttempt]
  /\ IF pools[p].state = "opening"
       THEN /\ pools' = [pools EXCEPT ![p].state =
                           IF e = NoError THEN "open" ELSE "closed"]
            /\ dbOpenReturns(p, e)
       ELSE UNCHANGED <<reader, writer, pools, task>>

\* The connection attempts in progress.
InProgress == {x \in PoolIds \X Attempts : attempt[x[1]][x[2]].pc # "idle"}

\* The pool is about to open a connection: it copies its ConnConfig, whose
\* password is the one of the connection string, and calls BeforeConnect
\* with the copy. BeforeConnect reads the clock and compares it with ds.exp:
\* it calls GetRDSAuthToken or returns nil.
BeforeConnect(p, a) ==
  /\ ~crashed
  /\ pools[p].state \in {"opening", "open"}
  /\ pools[p].state = "opening" => a = 1
  /\ attempt[p][a].pc = "idle"
  /\ \A b \in 1..(a - 1) : attempt[p][b].pc # "idle"
  /\ attempt' = [attempt EXCEPT ![p][a] =
                   [pc |-> IF After(clock.now, ds[p].exp)
                             THEN "GetRDSAuthToken" ELSE "connect",
                    password |-> Placeholder]]
  /\ UNCHANGED <<reader, writer, pools, ncalls, main, wg, errs, closer, task,
                 crashed, last, clock, ds>>
  /\ UNCHANGED <<ctx, utilVars>>

\* cc.Config.Password, err = aws.GetRDSAuthToken(...): the call returns a
\* token signed now, or "" and an error; both results are assigned, err
\* being the variable of dbOpen that all attempts of the pool share.
GetRDSAuthToken(p, a) ==
  /\ ~crashed
  /\ attempt[p][a].pc = "GetRDSAuthToken"
  /\ \E ok \in BOOLEAN :
       /\ attempt' = [attempt EXCEPT ![p][a] =
                        [@ EXCEPT !.pc = "err != nil",
                                  !.password = IF ok THEN Password("token", clock.now)
                                               ELSE Password("", ZeroTime)]]
       /\ ds' = [ds EXCEPT ![p].err = IF ok THEN NoError ELSE MintErr(p, a)]
  /\ UNCHANGED <<reader, writer, pools, ncalls, main, wg, errs, closer, task,
                 crashed, last, clock>>
  /\ UNCHANGED <<ctx, utilVars>>

\* ...; err != nil
BeforeConnectErr(p, a) ==
  /\ ~crashed
  /\ attempt[p][a].pc = "err != nil"
  /\ attempt' = [attempt EXCEPT ![p][a].pc =
                   IF ds[p].err # NoError THEN "return err" ELSE "ds.exp"]
  /\ UNCHANGED <<reader, writer, pools, ncalls, main, wg, errs, closer, task,
                 crashed, last, clock, ds>>
  /\ UNCHANGED <<ctx, utilVars>>

\* return err: the pool gives the attempt up when the value is an error, and
\* goes on to connect when it is nil.
BeforeConnectReturn(p, a) ==
  /\ ~crashed
  /\ attempt[p][a].pc = "return err"
  /\ IF ds[p].err # NoError
       THEN EndAttempt(p, a, ds[p].err)
       ELSE /\ attempt' = [attempt EXCEPT ![p][a].pc = "connect"]
            /\ UNCHANGED <<reader, writer, pools, task>>
  /\ UNCHANGED <<ncalls, main, wg, errs, closer, crashed, last, clock, ds>>
  /\ UNCHANGED <<ctx, utilVars>>

\* BeforeConnect of a connector whose pools keep one credential record
\* between them.
BeforeConnectExpShared(p, a) ==
  /\ ~crashed
  /\ attempt[p][a].pc = "ds.exp"
  /\ attempt' = [attempt EXCEPT ![p][a].pc = "connect"]
  /\ ds' = [q \in PoolIds |->
              IF q[1] = p[1] THEN [ds[q] EXCEPT !.exp = clock.now + TokenCache]
              ELSE ds[q]]
  /\ UNCHANGED <<reader, writer, pools, ncalls, main, wg, errs, closer, task,
                 crashed, last, clock>>
  /\ UNCHANGED <<ctx, utilVars>>

\* ds.exp = time.Now().Add(time.Second * 890); return nil
BeforeConnectExp(p, a) ==
  /\ ~crashed
  /\ attempt[p][a].pc = "ds.exp"
  /\ attempt' = [attempt EXCEPT ![p][a].pc = "connect"]
  /\ ds' = [ds EXCEPT ![p].exp = clock.now + TokenCache]
  /\ UNCHANGED <<reader, writer, pools, ncalls, main, wg, errs, closer, task,
                 crashed, last, clock>>
  /\ UNCHANGED <<ctx, utilVars>>

\* pgx.ConnectConfig with the copy: the attempt presents its password, and
\* can succeed only if the authority accepts it.
ConnectAttempt(p, a) ==
  /\ ~crashed
  /\ attempt[p][a].pc = "connect"
  /\ \E ok \in BOOLEAN :
       /\ ok => Accepted(attempt[p][a].password)
       /\ EndAttempt(p, a, IF ok THEN NoError ELSE ConnectErr(p))
  /\ UNCHANGED <<ncalls, main, wg, errs, closer, crashed, last, clock, ds>>
  /\ UNCHANGED <<ctx, utilVars>>

\* The connector when the connect task of NewConnection(Read) is about to
\* call dbOpen: in the first call on a new connector, or in a second call
\* on a connector that holds the reader of a first one.
AtDbOpen(held) ==
  LET c == IF held THEN 2 ELSE 1 IN
  /\ reader = IF held THEN <<1, Read>> ELSE Nil
  /\ writer = Nil
  /\ pools = [p \in PoolIds |->
               IF held /\ p = <<1, Read>>
                 THEN [state |-> "open", secret |-> secretNames[Read], pinged |-> TRUE]
                 ELSE NoPool]
  /\ ncalls = c
  /\ main = [pc |-> "range", call |-> c, dp |-> Read, ret |-> NoError]
  /\ wg = [i \in Calls |-> IF i = c THEN 1 ELSE 0]
  /\ errs = [i \in Calls |-> IF i < c THEN "closed" ELSE IF i = c THEN "open" ELSE "none"]
  /\ closer = [i \in Calls |-> IF i < c THEN "done" ELSE IF i = c THEN "wait" ELSE "none"]
  /\ task = [i \in Calls |-> [r \in Roles |->
               IF i = c /\ r = Read
                 THEN [pc |-> "dbOpen", err |-> NoError,
                       hist |-> << <<"getValuesAWS", TRUE>> >>]
                 ELSE NoTask]]
  /\ crashed = FALSE
  /\ last = NoCall
  /\ clock = StartClock
  /\ ds = [p \in PoolIds |->
            IF held /\ p = <<1, Read>>
              THEN [exp |-> StartClock.now + TokenCache, err |-> NoError]
              ELSE NoSecret]
  /\ attempt = [p \in PoolIds |-> [a \in Attempts |-> NoAttempt]]
  /\ ctx = Background
  /\ UtilInit

InitToken == \E held \in BOOLEAN : AtDbOpen(held)

NextToken ==
  \/ \E d \in TimeSteps : Tick(d)
  \/ \E c \in Calls, dp \in Roles : dbOpenConnectConfig(c, dp)
  \/ \E p \in PoolIds, a \in Attempts :
       Cardinality(InProgress) < MaxAttempts /\ BeforeConnect(p, a)
  \/ \E p \in PoolIds, a \in Attempts : GetRDSAuthToken(p, a)
  \/ \E p \in PoolIds, a \in Attempts : BeforeConnectErr(p, a)
  \/ \E p \in PoolIds, a \in Attempts : BeforeConnectReturn(p, a)
  \/ \E p \in PoolIds, a \in Attempts : BeforeConnectExp(p, a)
  \/ \E p \in PoolIds, a \in Attempts : ConnectAttempt(p, a)

SpecToken == InitToken /\ [][NextToken]_vars

\* The reader pool of an established connector opens connections for
\* callers that use the connector at the same time.
InitOverlap == Established(Read)

NextOverlap ==
  \/ \E d \in TimeSteps : Tick(d)
  \/ \E p \in PoolIds, a \in Attempts :
       Cardinality(InProgress) < MaxOverlap /\ BeforeConnect(p, a)
  \/ \E p \in PoolIds, a \in Attempts : GetRDSAuthToken(p, a)
  \/ \E p \in PoolIds, a \in Attempts : BeforeConnectErr(p, a)
  \/ \E p \in PoolIds, a \in Attempts : BeforeConnectReturn(p, a)
  \/ \E p \in PoolIds, a \in Attempts : BeforeConnectExp(p, a)
  \/ \E p \in PoolIds, a \in Attempts : ConnectAttempt(p, a)

SpecOverlap == InitOverlap /\ [][NextOverlap]_vars

\* A connector with both pools: each pool opens connections on its own, one
\* at a time here, and the attempts of the two pools overlap.
InitPair == Established(ReadAndWrite)

NextPair ==
  \/ \E d \in TimeSteps : Tick(d)
  \/ \E p \in PoolIds : BeforeConnect(p, 1)
  \/ \E p \in PoolIds : GetRDSAuthToken(p, 1)
  \/ \E p \in PoolIds : BeforeConnectErr(p, 1)
  \/ \E p \in PoolIds : BeforeConnectReturn(p, 1)
  \/ \E p \in PoolIds : BeforeConnectExp(p, 1)
  \/ \E p \in PoolIds : ConnectAttempt(p, 1)

SpecPair == InitPair /\ [][NextPair]_vars

\* The query methods on each connector a successful NewConnection leaves.
InitQuery == \E dp \in {NoProxy, Read, Write, ReadAndWrite} : Established(dp)

NextQuery ==
  \/ \E sql \in SqlStrings : Query(sql)
  \/ \E sql \in SqlStrings : QueryRow(sql)
  \/ \E sql \in SqlStrings : Exec(sql)
  \/ Begin
  \/ BeginFunc
  \/ Close
  \/ Returned

SpecQuery == InitQuery /\ [][NextQuery]_vars

\* The connector in use after Close: statements of one kind each, Close
\* and Ping, one call at a time.
OneStatement == {<<SelectText>>, <<InsertText>>}

NextClosed ==
  \/ \E sql \in OneStatement : Query(sql)
  \/ \E sql \in OneStatement : Exec(sql)
  \/ Close
  \/ Returned
  \/ Ping
  \/ \E r \in Roles : PingProbe(r)
  \/ \E r \in Roles : PingReceive(r)
  \/ PingClosed
  \/ \E c \in Calls : PingCloser(c)
  \/ \E c \in Calls, dp \in Roles : pingProxy(c, dp)
  \/ \E c \in Calls, dp \in Roles : PingSendClosed(c, dp)

SpecClosed == InitQuery /\ [][NextClosed]_vars

\* Ping on each connector a successful NewConnection leaves.
InitPing == \E dp \in {NoProxy, Read, Write, ReadAndWrite} : Established(dp)

NextPing ==
  \/ Ping
  \/ \E r \in Roles : PingProbe(r)
  \/ \E r \in Roles : PingReceive(r)
  \/ PingClosed
  \/ \E c \in Calls : PingCloser(c)
  \/ \E c \in Calls, dp \in Roles : pingProxy(c, dp)
  \/ \E c \in Calls, dp \in Roles : PingSendClosed(c, dp)

SpecPing == InitPing /\ [][NextPing]_vars

Next ==
  \/ \E dp \in DBProxies : NewConnection(dp)
  \/ NewConnectionSwitch
  \/ \E r \in Roles : NewConnectionReceive(r)
  \/ NewConnectionClosed
  \/ \E c \in Calls : Closer(c)
  \/ \E c \in Calls, dp \in Roles : getValuesAWS(c, dp)
  \/ \E c \in Calls, dp \in Roles : dbOpen(c, dp)
  \/ \E c \in Calls, dp \in Roles : connectPing(c, dp)

Spec == Init /\ [][Next]_vars

\* NewConnection called again on a connector that an earlier call of
\* NewConnection has connected.
InitRetry == \E dp \in {Read, Write, ReadAndWrite} : Established(dp)

SpecRetry == InitRetry /\ [][Next]_vars

\* NewConnection and Ping on one connector, with contexts that can be
\* cancelled or run out of time at any moment.
NextCancel ==
  \/ \E c \in Calls, e \in {Canceled, DeadlineExceeded} : CtxDone(c, e)
  \/ \E dp \in DBProxies : NewConnection(dp)
  \/ NewConnectionSwitch
  \/ \E r \in Roles : NewConnectionReceive(r)
  \/ NewConnectionClosed
  \/ \E c \in Calls : Closer(c)
  \/ \E c \in Calls, dp \in Roles : getValuesAWS(c, dp)
  \/ \E c \in Calls, dp \in Roles : dbOpen(c, dp)
  \/ \E c \in Calls, dp \in Roles : connectPing(c, dp)
  \/ Ping
  \/ \E r \in Roles : PingProbe(r)
  \/ \E r \in Roles : PingReceive(r)
  \/ PingClosed
  \/ \E c \in Calls : PingCloser(c)
  \/ \E c \in Calls, dp \in Roles : pingProxy(c, dp)
  \/ \E c \in Calls, dp \in Roles : PingSendClosed(c, dp)

SpecCancel == Init /\ [][NextCancel]_vars

\* ========================================================== other packages
\* The state of package db.
dbVars == <<reader, writer, pools, ncalls, main, wg, errs, closer, task, crashed, last>>

\* os.Setenv and os.Unsetenv, done by whoever starts or runs the process.
SetenvCall(name, v) ==
  /\ env' = [env EXCEPT ![name] = Setenv(v)]
  /\ UNCHANGED <<dbVars, tokenVars, ctx, out, conn>>

UnsetenvCall(name) ==
  /\ env' = [env EXCEPT ![name] = Unset]
  /\ UNCHANGED <<dbVars, tokenVars, ctx, out, conn>>

\* ------------------------------------------------------------- package log
\* A string is a sequence of characters here.
Letters == <<"a", "b", "c", "d", "e", "f", "g", "h", "i", "j", "k", "l", "m",
             "n", "o", "p", "q", "r", "s", "t", "u", "v", "w", "x", "y", "z">>
Capitals == <<"A", "B", "C", "D", "E", "F", "G", "H", "I", "J", "K", "L", "M",
              "N", "O", "P", "Q", "R", "S", "T", "U", "V", "W", "X", "Y", "Z">>

\* A comparison of the level that does not fold the case.
SameCase(str) == str

\* strings.ToLower
ToLower(str) ==
  [i \in 1..Len(str) |->
     IF \E k \in 1..Len(Capitals) : Capitals[k] = str[i]
       THEN Letters[CHOOSE k \in 1..Len(Capitals) : Capitals[k] = str[i]]
       ELSE str[i]]

\* zapcore.DebugLevel, InfoLevel, WarnLevel, ErrorLevel
DebugLevel == 0 - 1
InfoLevel == 0
WarnLevel == 1
ErrorLevel == 2

DebugWord == <<"d", "e", "b", "u", "g">>
InfoWord == <<"i", "n", "f", "o">>
WarnWord == <<"w", "a", "r", "n">>
ErrorWord == <<"e", "r", "r", "o", "r">>

\* NewLoggerConfig
NewLoggerConfig(level) ==
  [Level |-> level, Encoding |-> "json", OutputPaths |-> <<"stdout">>,
   ErrorOutputPaths |-> <<"stderr">>]

\* zap.Config.Build: fails for an encoding that is not registered and for
\* an output path it cannot open; the standard streams can always be opened.
Build(cfg) ==
  IF cfg.Encoding \notin {"json", "console"}
    THEN [logger |-> Nil, err |-> ErrorsNew("no encoder registered", "zap.newEncoder")]
    ELSE IF \E i \in 1..Len(cfg.OutputPaths) : cfg.OutputPaths[i] \notin {"stdout", "stderr"}
      THEN [logger |-> Nil, err |-> ErrorsNew("couldn't open sink", "zap.Open")]
      ELSE [logger |-> <<[level |-> cfg.Level]>>, err |-> NoError]

\* (*zap.Logger).Core().Enabled(lvl) of a logger that is not nil.
Enabled(logger, lvl) == lvl >= logger[1].level

\* NewLogger, in the environment e.
NewLoggerResult(e) ==
  LET ll == e["LOG_LEVEL"]
      level == IF ll.ok
                 THEN CASE ToLower(ll.val) = DebugWord -> DebugLevel
                        [] ToLower(ll.val) = InfoWord -> InfoLevel
                        [] ToLower(ll.val) = WarnWord -> WarnLevel
                        [] ToLower(ll.val) = ErrorWord -> ErrorLevel
                        [] OTHER -> InfoLevel
                 ELSE InfoLevel
      built == Build(NewLoggerConfig(level))
  IN
  IF built.err # NoError THEN [logger |-> Nil, err |-> built.err]
  ELSE [logger |-> built.logger, err |-> NoError]

NewLogger ==
  /\ out' = [op |-> "NewLogger", env |-> env["LOG_LEVEL"],
             logger |-> NewLoggerResult(env).logger, err |-> NewLoggerResult(env).err]
  /\ UNCHANGED <<dbVars, tokenVars, ctx, env, conn>>

\* The spellings of word in capital and small letters.
Spellings(word) ==
  {[i \in 1..Len(word) |->
      IF i \in caps
        THEN Capitals[CHOOSE k \in 1..Len(Letters) : Letters[k] = word[i]]
        ELSE word[i]] : caps \in SUBSET (1..Len(word))}

\* Values of LOG_LEVEL: the names of the levels in every spelling, and
\* values that name no level.
LogLevels ==
  Spellings(DebugWord) \cup Spellings(InfoWord) \cup Spellings(WarnWord)
    \cup Spellings(ErrorWord)
    \cup {<<>>, <<"w", "a", "r", "n", "i", "n", "g">>, <<"t", "r", "a", "c", "e">>,
          <<"d", "e", "b", "u", "g", " ">>, <<"2">>}

NextLog ==
  \/ \E v \in LogLevels : ~env["LOG_LEVEL"].ok /\ SetenvCall("LOG_LEVEL", v)
  \/ UnsetenvCall("LOG_LEVEL")
  \/ NewLogger

SpecLog == Init /\ [][NextLog]_vars

\* ----------------------------------------------------------- package redis
\* A *redis.Client is named by the address it was made for; Nil is the nil
\* pointer.
RedisHost == <<"l", "o", "c", "a", "l", "h", "o", "s", "t">>
RedisPort == <<"6", "3", "7", "9">>

\* redis.NewClient: never nil.
NewClient(addr) == <<addr>>

\* The client a test of the package puts into the field.
MockClient == NewClient(<<"m", "o", "c", "k">>)

RedisErr == ErrorsNew("FAIL", "go-redis")
RedisAnswers == {NoError, RedisErr}

KeyMissing == ErrorsNew("key parameter missing", "errors.New@redis")

\* The body of NewConn on its receiver r, in the environment e: the
\* receiver as the method leaves it, the error returned, and the client
\* that was sent a command (Ping), Nil if none was.
NewConnResult(r, e, answer) ==
  IF ~e["REDIS_HOST"].ok
    THEN [r |-> r, err |-> ErrorsNew("host path is missing", "errors.New@NewConn"),
          used |-> Nil]
    ELSE LET made == [r EXCEPT !.client =
                        NewClient(e["REDIS_HOST"].val \o <<":">> \o e["REDIS_PORT"].val)]
         IN
         IF made.client = Nil
           THEN [r |-> made, err |-> ErrorsNew("redis connection failed", "errors.New@NewConn"),
                 used |-> Nil]
           ELSE [r |-> made, err |-> answer, used |-> made.client]

\* conn.NewConn(ctx). The method has a value receiver, func (r RedisConn):
\* r is a copy of conn, and the copy is gone when the method returns.
NewConn ==
  /\ ~crashed
  /\ \E answer \in RedisAnswers :
       LET r == [client |-> conn.client]
           res == NewConnResult(r, env, answer)
       IN
       conn' = [client |-> conn.client, op |-> "NewConn", args |-> <<>>,
                err |-> res.err, used |-> res.used]
  /\ UNCHANGED <<dbVars, tokenVars, ctx, env, out>>

\* conn.client = db, as the tests inside the package do.
SetClient ==
  /\ ~crashed
  /\ conn' = [NoConn EXCEPT !.client = MockClient]
  /\ UNCHANGED <<dbVars, tokenVars, ctx, env, out>>

\* A variant of the methods that sends the command first and looks at the
\* arguments afterwards.
ClientCallUnchecked(op, args, missing, answer) ==
  /\ ~crashed
  /\ IF conn.client = Nil
       THEN /\ crashed' = TRUE
            /\ conn' = [conn EXCEPT !.op = op, !.args = args, !.err = NoError,
                                    !.used = Nil]
       ELSE /\ conn' = [conn EXCEPT !.op = op, !.args = args,
                                    !.err = IF missing # NoError THEN missing ELSE answer,
                                    !.used = conn.client]
            /\ UNCHANGED crashed
  /\ UNCHANGED <<reader, writer, pools, ncalls, main, wg, errs, closer, task, last>>
  /\ UNCHANGED <<tokenVars, ctx, env, out>>

\* A method that checks its arguments and then calls the client: a call on
\* a nil client panics.
ClientCall(op, args, missing, answer) ==
  /\ ~crashed
  /\ IF missing # NoError
       THEN /\ conn' = [conn EXCEPT !.op = op, !.args = args, !.err = missing,
                                    !.used = Nil]
            /\ UNCHANGED crashed
       ELSE IF conn.client = Nil
         THEN /\ crashed' = TRUE
              /\ conn' = [conn EXCEPT !.op = op, !.args = args, !.err = NoError,
                                      !.used = Nil]
         ELSE /\ conn' = [conn EXCEPT !.op = op, !.args = args, !.err = answer,
                                      !.used = conn.client]
              /\ UNCHANGED crashed
  /\ UNCHANGED <<reader, writer, pools, ncalls, main, wg, errs, closer, task, last>>
  /\ UNCHANGED <<tokenVars, ctx, env, out>>

RedisKeys == {<<>>, <<"k">>, <<"k", "2">>}
RedisValues == {<<>>, <<"v">>}

\* conn.Set(ctx, k, d, e)
Set(k, d) ==
  \E answer \in RedisAnswers :
    ClientCall("Set", <<k, d>>,
               IF k = <<>> THEN KeyMissing
               ELSE IF d = <<>>
                 THEN ErrorsNew("value parameter missing", "errors.New@redis")
                 ELSE NoError,
               answer)

\* conn.Get(ctx, k)
Get(k) ==
  \E answer \in RedisAnswers :
    ClientCall("Get", <<k>>, IF k = <<>> THEN KeyMissing ELSE NoError, answer)

\* conn.Expire(ctx, k, t)
Expire(k) ==
  \E answer \in RedisAnswers :
    ClientCall("Expire", <<k>>, IF k = <<>> THEN KeyMissing ELSE NoError, answer)

NextRedis ==
  \/ ~env["REDIS_HOST"].ok /\ SetenvCall("REDIS_HOST", RedisHost)
  \/ ~env["REDIS_PORT"].ok /\ SetenvCall("REDIS_PORT", RedisPort)
  \/ \E name \in {"REDIS_HOST", "REDIS_PORT"} : UnsetenvCall(name)
  \/ NewConn
  \/ SetClient
  \/ \E k \in RedisKeys, d \in RedisValues : Set(k, d)
  \/ \E k \in RedisKeys : Get(k)
  \/ \E k \in RedisKeys : Expire(k)

SpecRedis == Init /\ [][NextRedis]_vars

\* ------------------------------------------------------------- package api
\* A Go string is a sequence of pieces here: runs of plain text, and single
\* characters that json.Marshal does not copy as they are. JSON text is a
\* sequence of tokens: punctuation, numbers and the pieces of strings.
DoubleQuote == "\""
LessThan == "<"
InvalidByte == "byte 0xff"       \* a byte that is not valid UTF-8
ReplacementChar == "U+FFFD"      \* the Unicode replacement character

\* A string encoder that copies every piece as it is.
RawPiece(piece) == piece

\* encoding/json, one piece of a string: quotes are escaped, the characters
\* <, > and & are written as \u escapes, and a byte that is not valid UTF-8
\* is replaced by the escape of U+FFFD.
EscapePiece(piece) ==
  CASE piece = DoubleQuote -> "\\\""
    [] piece = LessThan -> "\\u003c"
    [] piece = InvalidByte -> "\\ufffd"
    [] OTHER -> piece

\* A JSON string literal for str.
QuoteString(str) ==
  <<DoubleQuote>> \o [i \in 1..Len(str) |-> EscapePiece(str[i])] \o <<DoubleQuote>>

RECURSIVE Text(_)
\* string(bb): the tokens written one after the other.
Text(toks) == IF toks = <<>> THEN "" ELSE Head(toks) \o Text(Tail(toks))

\* Go values handed to json.Marshal.
GoNil == [kind |-> "nil"]
GoInt(n) == [kind |-> "int", int |-> n]
GoString(str) == [kind |-> "string", str |-> str]
\* A struct or a map with string keys: its fields or entries in the order
\* they are written in.
GoObject(entries) == [kind |-> "object", entries |-> entries]
GoChan == [kind |-> "chan"]
\* A struct that reaches itself through a pointer.
GoCyclic == [kind |-> "cyclic"]

UnsupportedTypeError == ErrorsNew("json: unsupported type", "json.UnsupportedTypeError")
UnsupportedValueError == ErrorsNew("json: unsupported value", "json.UnsupportedValueError")

RECURSIVE Marshal(_)
RECURSIVE MarshalEntries(_, _)
\* json.Marshal
Marshal(v) ==
  CASE v.kind = "nil" -> [json |-> <<"null">>, err |-> NoError]
    [] v.kind = "int" -> [json |-> <<ToString(v.int)>>, err |-> NoError]
    [] v.kind = "string" -> [json |-> QuoteString(v.str), err |-> NoError]
    [] v.kind = "object" ->
         LET m == MarshalEntries(v.entries, 1) IN
         IF m.err # NoError THEN [json |-> <<>>, err |-> m.err]
         ELSE [json |-> <<"{">> \o m.json \o <<"}">>, err |-> NoError]
    [] v.kind = "chan" -> [json |-> <<>>, err |-> UnsupportedTypeError]
    [] v.kind = "cyclic" -> [json |-> <<>>, err |-> UnsupportedValueError]

MarshalEntries(entries, i) ==
  IF i > Len(entries) THEN [json |-> <<>>, err |-> NoError]
  ELSE LET m == Marshal(entries[i][2])
           rest == MarshalEntries(entries, i + 1)
       IN
       IF m.err # NoError THEN m
       ELSE IF rest.err # NoError THEN rest
       ELSE [json |-> QuoteString(<<entries[i][1]>>) \o <<":">> \o m.json
                        \o (IF i < Len(entries) THEN <<",">> ELSE <<>>) \o rest.json,
             err |-> NoError]

\* http.StatusText for the codes used here; "" for any other number.
StatusText(code) ==
  CASE code = 200 -> <<"OK">>
    [] code = 400 -> <<"Bad Request">>
    [] code = 404 -> <<"Not Found">>
    [] code = 500 -> <<"Internal Server Error">>
    [] OTHER -> <<>>

StatusInternalServerError == 500

invalidJSONError == <<"could not create JSON response">>

JSONHeaders == [h \in {"Content-Type"} |-> "application/json"]

\* errorResponse{Error: errorResponseDetails{code, message, status}}
errorResponse(code, message, status) ==
  GoObject(<< <<"error", GoObject(<< <<"code", GoInt(code)>>,
                                     <<"message", GoString(message)>>,
                                     <<"status", GoString(status)>> >>)>> >>)

\* JSONErrResponse: the response and the error it returns.
JSONErrResponseResult(code, message) ==
  LET m == Marshal(errorResponse(code, message, StatusText(code))) IN
  IF m.err # NoError
    THEN [resp |-> [StatusCode |-> StatusInternalServerError,
                    Body |-> <<"{", DoubleQuote, "error", DoubleQuote, ":", "{",
                               DoubleQuote, "code", DoubleQuote, ":",
                               ToString(StatusInternalServerError), ",",
                               DoubleQuote, "message", DoubleQuote, ":", DoubleQuote>>
                             \o invalidJSONError
                             \o <<DoubleQuote, ",", DoubleQuote, "status", DoubleQuote,
                                  ":", DoubleQuote>>
                             \o StatusText(StatusInternalServerError)
                             \o <<DoubleQuote, "}", "}">>,
                    Headers |-> JSONHeaders],
          err |-> NoError]
    ELSE [resp |-> [StatusCode |-> code, Body |-> m.json, Headers |-> JSONHeaders],
          err |-> NoError]

\* JSONResponse that answers a body it cannot marshal with the code it was
\* given.
JSONResponseResultSameCode(code, body) ==
  LET m == Marshal(body) IN
  IF m.err # NoError
    THEN JSONErrResponseResult(code, invalidJSONError)
    ELSE [resp |-> [StatusCode |-> code, Body |-> m.json, Headers |-> JSONHeaders],
          err |-> NoError]

\* JSONResponse
JSONResponseResult(code, body) ==
  LET m == Marshal(body) IN
  IF m.err # NoError
    THEN JSONErrResponseResult(StatusInternalServerError, invalidJSONError)
    ELSE [resp |-> [StatusCode |-> code, Body |-> m.json, Headers |-> JSONHeaders],
          err |-> NoError]

JSONResponse(code, body) ==
  /\ out' = [op |-> "JSONResponse", code |-> code, body |-> body,
             resp |-> JSONResponseResult(code, body).resp,
             err |-> JSONResponseResult(code, body).err]
  /\ UNCHANGED <<dbVars, tokenVars, ctx, env, conn>>

JSONErrResponse(code, message) ==
  /\ out' = [op |-> "JSONErrResponse", code |-> code, message |-> message,
             resp |-> JSONErrResponseResult(code, message).resp,
             err |-> JSONErrResponseResult(code, message).err]
  /\ UNCHANGED <<dbVars, tokenVars, ctx, env, conn>>

\* The codes, messages and bodies the functions are called with.
Codes == {200, 400, 404, 500, 42, 0, 0 - 1}

MessagePieces == {"bad news", DoubleQuote, LessThan, InvalidByte}

Messages == UNION {[1..n -> MessagePieces] : n \in 0..MaxMsgLen}

Bodies ==
  {GoNil, GoInt(7), GoString(<<"bar">>), GoString(<<DoubleQuote, "bar">>),
   GoObject(<<>>), GoObject(<< <<"foo", GoString(<<"bar">>)>> >>),
   GoObject(<< <<"foo", GoChan>> >>),
   GoObject(<< <<"id", GoInt(1)>>, <<"next", GoCyclic>> >>),
   GoChan, GoCyclic}

NextJSON ==
  \/ \E code \in Codes, body \in Bodies : JSONResponse(code, body)
  \/ \E code \in Codes, message \in Messages : JSONErrResponse(code, message)

SpecJSON == Init /\ [][NextJSON]_vars

\* NewStoriServices. A pointer is Nil or a one-element sequence holding
\* what it points to.
ErrRegionNotSet == ErrorsNew("aws region is not set", "aws.ErrRegionNotSet")
SessionErr == ErrorsNew("could not create session", "session.NewSession")
SessionAnswers == {NoError, SessionErr}

\* aws.NewLambdaClient in the environment e; answer is what
\* session.NewSession returns.
NewLambdaClient(e, answer) ==
  IF ~e["AWS_REGION"].ok THEN [client |-> Nil, err |-> ErrRegionNotSet]
  ELSE IF answer # NoError THEN [client |-> Nil, err |-> answer]
  ELSE [client |-> <<[service |-> "lambda", region |-> e["AWS_REGION"].val]>>,
        err |-> NoError]

\* aws.NewSNSClient.
NewSNSClient(answer) ==
  IF answer # NoError THEN [client |-> Nil, err |-> answer]
  ELSE [client |-> <<[service |-> "sns"]>>, err |-> NoError]

\* What a.NewConnection(ctx, dp) can return on a new connector: the error
\* of the switch for a value that names no proxy, and otherwise nil or the
\* first error a connect task sent.
NewConnectionAnswers(dp) ==
  IF dp \notin {Read, Write, ReadAndWrite}
    THEN {ErrRoleNotProvided}
    ELSE {NoError} \cup
         {ErrorsNew(m, "connect/" \o r) :
            m \in {"secret not found", "ping failed"},
            r \in (IF dp = ReadAndWrite THEN Roles ELSE {dp})}

\* The configurations: DBProxy is a pointer.
Configs ==
  [DBProxy : {Nil} \cup {<<dp>> : dp \in DBProxies},
   Lambda : BOOLEAN, RedisCache : BOOLEAN, SNS : BOOLEAN]

ZeroConfig == [DBProxy |-> Nil, Lambda |-> FALSE, RedisCache |-> FALSE, SNS |-> FALSE]

\* StoriServices{}.
ZeroServices ==
  [DB |-> Nil, LambdaAPI |-> Nil, Logger |-> Nil, SNSAPI |-> Nil, Redis |-> Nil]

\* A variant of NewStoriServices that returns what it has built so far
\* beside the error.
NewStoriServicesResultPartial(config, e, answers) ==
  LET logged == NewLoggerResult(e)
      out0 == [ZeroServices EXCEPT !.Logger = logged.logger]
      out1 == IF config.DBProxy # Nil THEN [out0 EXCEPT !.DB = <<[proxy |-> config.DBProxy[1]]>>]
              ELSE out0
      la == NewLambdaClient(e, answers.lambda)
      out2 == IF config.Lambda THEN [out1 EXCEPT !.LambdaAPI = la.client] ELSE out1
      sn == NewSNSClient(answers.sns)
      out3 == IF config.SNS THEN [out2 EXCEPT !.SNSAPI = sn.client] ELSE out2
      rc == NewConnResult([client |-> Nil], e, answers.redis)
      out4 == IF config.RedisCache THEN [out3 EXCEPT !.Redis = <<[client |-> Nil]>>] ELSE out3
  IN
  IF logged.err # NoError
    THEN [out |-> ZeroServices,
          err |-> ErrorfV("error creating logger: ", logged.err, "fmt.Errorf@api.go:53")]
  ELSE IF config.DBProxy # Nil /\ answers.db # NoError
    THEN [out |-> out0,
          err |-> ErrorfV("error establishing database connection: ", answers.db,
                          "fmt.Errorf@api.go:61")]
  ELSE IF config.Lambda /\ la.err # NoError
    THEN [out |-> out1,
          err |-> ErrorfV("error creating lambda client: ", la.err, "fmt.Errorf@api.go:68")]
  ELSE IF config.SNS /\ sn.err # NoError
    THEN [out |-> out2,
          err |-> ErrorfV("error creating SNS client: ", sn.err, "fmt.Errorf@api.go:74")]
  ELSE IF config.RedisCache /\ rc.err # NoError
    THEN [out |-> out3,
          err |-> ErrorfV("error creating Redis client: ", rc.err, "fmt.Errorf@api.go:81")]
  ELSE [out |-> out4, err |-> NoError]

\* NewStoriServices(ctx, config) in the environment e; answers are what
\* the services outside the process return. Each step that fails returns
\* StoriServices{} and the wrapped error at once. r.NewConn has a value
\* receiver, so the r that out.Redis is given still has no client.
NewStoriServicesResult(config, e, answers) ==
  LET logged == NewLoggerResult(e)
      out0 == [ZeroServices EXCEPT !.Logger = logged.logger]
      out1 == IF config.DBProxy # Nil THEN [out0 EXCEPT !.DB = <<[proxy |-> config.DBProxy[1]]>>]
              ELSE out0
      la == NewLambdaClient(e, answers.lambda)
      out2 == IF config.Lambda THEN [out1 EXCEPT !.LambdaAPI = la.client] ELSE out1
      sn == NewSNSClient(answers.sns)
      out3 == IF config.SNS THEN [out2 EXCEPT !.SNSAPI = sn.client] ELSE out2
      rc == NewConnResult([client |-> Nil], e, answers.redis)
      out4 == IF config.RedisCache THEN [out3 EXCEPT !.Redis = <<[client |-> Nil]>>] ELSE out3
  IN
  IF logged.err # NoError
    THEN [out |-> ZeroServices,
          err |-> ErrorfV("error creating logger: ", logged.err, "fmt.Errorf@api.go:53")]
  ELSE IF config.DBProxy # Nil /\ answers.db # NoError
    THEN [out |-> ZeroServices,
          err |-> ErrorfV("error establishing database connection: ", answers.db,
                          "fmt.Errorf@api.go:61")]
  ELSE IF config.Lambda /\ la.err # NoError
    THEN [out |-> ZeroServices,
          err |-> ErrorfV("error creating lambda client: ", la.err, "fmt.Errorf@api.go:68")]
  ELSE IF config.SNS /\ sn.err # NoError
    THEN [out |-> ZeroServices,
          err |-> ErrorfV("error creating SNS client: ", sn.err, "fmt.Errorf@api.go:74")]
  ELSE IF config.RedisCache /\ rc.err # NoError
    THEN [out |-> ZeroServices,
          err |-> ErrorfV("error creating Redis client: ", rc.err, "fmt.Errorf@api.go:81")]
  ELSE [out |-> out4, err |-> NoError]

NewStoriServices(config) ==
  \E db \in (IF config.DBProxy = Nil THEN {NoError}
             ELSE NewConnectionAnswers(config.DBProxy[1])),
     la \in (IF config.Lambda THEN SessionAnswers ELSE {NoError}),
     sn \in (IF config.SNS THEN SessionAnswers ELSE {NoError}),
     rd \in (IF config.RedisCache THEN RedisAnswers ELSE {NoError}) :
    LET res == NewStoriServicesResult(config, env,
                 [db |-> db, lambda |-> la, sns |-> sn, redis |-> rd])
    IN
    /\ out' = [op |-> "NewStoriServices", config |-> config,
               services |-> res.out, err |-> res.err]
    /\ UNCHANGED <<dbVars, tokenVars, ctx, env, conn>>

\* The environments NewStoriServices is called in.
Region == <<"u", "s", "-", "w", "e", "s", "t", "-", "2">>

NextServices ==
  \/ SetenvCall("LOG_LEVEL", DebugWord)
  \/ SetenvCall("AWS_REGION", Region)
  \/ SetenvCall("REDIS_HOST", RedisHost)
  \/ SetenvCall("REDIS_PORT", RedisPort)
  \/ \E name \in EnvNames : UnsetenvCall(name)
  \/ \E config \in Configs : NewStoriServices(config)

SpecServices == Init /\ [][NextServices]_vars

\* ------------------------------------------------------------- package aws
\* ParseS3URL. A URL string is a sequence of pieces: a scheme with its
\* colon, the two slashes "//", the slash "/", and names.
SchemePieces == {"s3:", "https:", "http:"}
SchemeOf(piece) ==
  CASE piece = "s3:" -> "s3"
    [] piece = "https:" -> "https"
    [] piece = "http:" -> "http"
    [] OTHER -> ""

\* A piece that is no valid percent-escape.
BadEscape == "%zz"

\* The number of pieces of str before the first one that is in stops.
RECURSIVE PrefixLen(_, _)
PrefixLen(str, stops) ==
  IF str = <<>> \/ Head(str) \in stops THEN 0 ELSE 1 + PrefixLen(Tail(str), stops)

DropFirst(str, n) == SubSeq(str, n + 1, Len(str))

HasPiece(str, piece) == \E i \in 1..Len(str) : str[i] = piece

\* url.Parse: the scheme, then "//" and the authority up to the next "/",
\* then the path; what follows a scheme and does not start with a slash is
\* opaque and is not unescaped; "///" without a scheme starts a path.
UrlParse(rawURL) ==
  LET hasScheme == rawURL # <<>> /\ Head(rawURL) \in SchemePieces
      scheme == IF hasScheme THEN SchemeOf(Head(rawURL)) ELSE ""
      rest == IF hasScheme THEN Tail(rawURL) ELSE rawURL
      authority == /\ rest # <<>>
                   /\ Head(rest) = "//"
                   /\ (hasScheme \/ ~(Len(rest) > 1 /\ rest[2] = "/"))
      opaque == hasScheme /\ rest # <<>> /\ Head(rest) \notin {"/", "//"}
      hostLen == IF authority THEN PrefixLen(Tail(rest), {"/", "//"})
                 ELSE 0
      host == IF authority THEN SubSeq(Tail(rest), 1, hostLen) ELSE <<>>
      path == IF opaque THEN <<>>
              ELSE IF authority THEN DropFirst(Tail(rest), hostLen)
              ELSE rest
  IN
  IF HasPiece(host, BadEscape) \/ HasPiece(path, BadEscape)
    THEN [err |-> ErrorsNew("invalid URL escape", "url.Parse"),
          Scheme |-> "", Host |-> <<>>, Path |-> <<>>]
    ELSE [err |-> NoError, Scheme |-> scheme, Host |-> host, Path |-> path]

\* strings.Split(str, sep) for a separator that is at the head of a piece;
\* seps are the pieces that begin with it. What follows the separator in
\* its piece is not kept: only the first element is read where that matters.
RECURSIVE Split(_, _)
Split(str, seps) ==
  LET n == PrefixLen(str, seps)
  IN IF n = Len(str) THEN <<str>>
     ELSE <<SubSeq(str, 1, n)>> \o Split(DropFirst(str, n + 1), seps)

\* strings.Join(elems, "/")
RECURSIVE Join(_)
Join(elems) ==
  IF elems = <<>> THEN <<>>
  ELSE IF Len(elems) = 1 THEN elems[1]
  ELSE elems[1] \o <<"/">> \o Join(Tail(elems))

\* The pieces that begin with "s3" and the pieces that begin with ".s3".
BeginsS3(piece) == piece \in {"s3.amazonaws.com", "s3:"}
BeginsDotS3 == {".s3.amazonaws.com"}

\* strings.Contains(s3URL, "https://s3")
ContainsHTTPSS3(s3URL) ==
  \E i \in 1..Len(s3URL) :
    /\ i + 2 <= Len(s3URL)
    /\ s3URL[i] = "https:"
    /\ s3URL[i + 1] = "//"
    /\ BeginsS3(s3URL[i + 2])

\* S3Object{}
ZeroS3Object == [BucketName |-> <<>>, Key |-> <<>>, Url |-> <<>>]

\* The body of ParseS3URL(s3URL): the object and the error returned, or a
\* panic. u.Path[1:] of an empty path is a slice out of range, and so is
\* stringMap[1] of a path without a slash.
ParseS3URLResult(s3URL) ==
  LET u == UrlParse(s3URL)
      stringMap == Split(u.Path, {"/"})
  IN
  IF u.err # NoError
    THEN [obj |-> ZeroS3Object, panic |-> FALSE,
          err |-> ErrorsNew("couldn't parse the url", "errors.New@ParseS3URL")]
  ELSE IF u.Scheme # "s3" /\ u.Scheme # "https"
    THEN [obj |-> ZeroS3Object, panic |-> FALSE,
          err |-> ErrorsNew("invalid protocol", "errors.New@ParseS3URL")]
  ELSE IF u.Path = <<>>
    THEN [obj |-> ZeroS3Object, panic |-> TRUE, err |-> NoError]
  ELSE IF ContainsHTTPSS3(s3URL)
    THEN IF Len(stringMap) < 2
           THEN [obj |-> ZeroS3Object, panic |-> TRUE, err |-> NoError]
           ELSE [obj |-> [BucketName |-> stringMap[2],
                          Key |-> Join(DropFirst(stringMap, 2)),
                          Url |-> s3URL],
                 panic |-> FALSE, err |-> NoError]
  ELSE [obj |-> [BucketName |-> Split(u.Host, BeginsDotS3)[1],
                 Key |-> Tail(u.Path),
                 Url |-> s3URL],
        panic |-> FALSE, err |-> NoError]

\* ParseS3URL(s3URL); a panic ends the process.
ParseS3URL(s3URL) ==
  /\ ~crashed
  /\ out' = [op |-> "ParseS3URL", s3URL |-> s3URL,
             obj |-> ParseS3URLResult(s3URL).obj,
             err |-> ParseS3URLResult(s3URL).err]
  /\ crashed' = ParseS3URLResult(s3URL).panic
  /\ UNCHANGED <<reader, writer, pools, ncalls, main, wg, errs, closer, task, last>>
  /\ UNCHANGED <<tokenVars, ctx, env, conn>>

\* The URLs the function is called with: a scheme or none, "//" or not, a
\* host, a path.
S3Hosts ==
  {<<>>, <<"s3.amazonaws.com">>, <<"bucket", ".s3.amazonaws.com">>, <<"bucket">>,
   <<"example.com">>, <<BadEscape>>}

S3Paths ==
  {<<>>, <<"/">>, <<"/", "key">>, <<"/", "bucket">>, <<"/", "bucket", "/">>,
   <<"/", "bucket", "/", "key">>, <<"/", "bucket", "/", "key", "/", "key">>,
   <<"/", BadEscape>>}

S3URLs ==
  {scheme \o slashes \o host \o path :
     scheme \in {<<>>} \cup {<<sp>> : sp \in SchemePieces},
     slashes \in {<<>>, <<"//">>},
     host \in S3Hosts,
     path \in S3Paths}

NextS3 == \E s3URL \in S3URLs : ParseS3URL(s3URL)

SpecS3 == Init /\ [][NextS3]_vars

\* ================================================================ claims
\* The pools a call of a query method contacted, in order.
Dispatches(call) == SelectSeq(call.steps, LAMBDA e : e.pool # "none")

Parses(sql) == Parse(sql).err = NoError

\* The statements of sql that can write data or modify the schema.
Writing(sql) ==
  {i \in 1..Len(Parse(sql).stmts) :
     CanWriteData(Parse(sql).stmts[i].AST) \/ CanModifySchema(Parse(sql).stmts[i].AST)}

ParseFailureText == "could not parse sql string: " \o SyntaxError.msg

\* C1: for every pool configuration and every SQL string that parses, Query
\* returns ErrWriterNotCreated when the statement is classified Write and the
\* writer is absent, ErrReaderNotCreated when it is classified Read and the
\* reader is absent, and in both cases contacts no pool.
C1_QueryPoolAbsent ==
  (last.op = "Query" /\ Parses(last.sql)) =>
    /\ (last.proxy = Write /\ writer = Nil) =>
          (last.err = ErrWriterNotCreated /\ Dispatches(last) = <<>>)
    /\ (last.proxy = Read /\ reader = Nil) =>
          (last.err = ErrReaderNotCreated /\ Dispatches(last) = <<>>)

\* An INSERT through Query on a connector that has a reader only.
C1_Witness ==
  /\ last.op = "Query"
  /\ last.sql = <<InsertText, Terminator>>
  /\ last.proxy = Write
  /\ writer = Nil
  /\ reader # Nil
  /\ last.err = ErrWriterNotCreated

\* C2: whenever the writer is absent, Exec, Begin and BeginFunc return
\* ErrWriterNotCreated, contact no pool and do not invoke the work function.
C2_WriterAbsent ==
  (last.op \in {"Exec", "Begin", "BeginFunc"} /\ writer = Nil) =>
    /\ last.err = ErrWriterNotCreated
    /\ Dispatches(last) = <<>>
    /\ last.work = "none"
    /\ last.tx = "none"

\* Begin on a connector that has a reader only.
C2_Witness ==
  /\ last.op = "Begin"
  /\ writer = Nil
  /\ reader # Nil
  /\ last.err = ErrWriterNotCreated

\* C3: QueryRow never returns nil and raises nothing itself; when the SQL
\* does not parse or the selected pool is absent it returns a row whose Scan
\* returns that error (the sentinel itself in the routing cases), and no pool
\* is contacted.
C3_QueryRowDefersErrors ==
  last.op = "QueryRow" =>
    /\ last.row.type # "nil"
    /\ last.err = NoError
    /\ ~Parses(last.sql) =>
          /\ last.row.type = "DBProxyError"
          /\ Scan(last.row).msg = ParseFailureText
          /\ Dispatches(last) = <<>>
    /\ (Parses(last.sql) /\ last.proxy = Read /\ reader = Nil) =>
          /\ last.row.type = "DBProxyError"
          /\ Scan(last.row) = ErrReaderNotCreated
          /\ Dispatches(last) = <<>>
    /\ (Parses(last.sql) /\ last.proxy = Write /\ writer = Nil) =>
          /\ last.row.type = "DBProxyError"
          /\ Scan(last.row) = ErrWriterNotCreated
          /\ Dispatches(last) = <<>>

\* QueryRow of a SELECT on a connector that has a writer only.
C3_Witness ==
  /\ last.op = "QueryRow"
  /\ last.sql = <<SelectText>>
  /\ reader = Nil
  /\ writer # Nil
  /\ last.row.type = "DBProxyError"
  /\ Scan(last.row) = ErrReaderNotCreated

\* C4: a batch that parses is classified Write if and only if at least one
\* of its statements, at any position, can write data or modify the schema,
\* and Read otherwise.
C4_WriteIffSomeStatementWrites ==
  (last.op \in {"Query", "QueryRow"} /\ Parses(last.sql)) =>
    /\ last.proxy \in {Read, Write}
    /\ last.proxy = Write <=> Writing(last.sql) # {}

\* A batch of a SELECT followed by an INSERT is classified Write.
C4_Witness ==
  /\ last.op = "Query"
  /\ last.sql = <<SelectText, Terminator, InsertText>>
  /\ last.proxy = Write

\* C5: Query and QueryRow classify before they dispatch, and when the SQL
\* does not parse they report the parse failure and contact no pool,
\* whatever pools are present.
C5_ParseFailureShortCircuits ==
  last.op \in {"Query", "QueryRow"} =>
    /\ Len(last.steps) >= 1
    /\ last.steps[1] = Classified
    /\ \A i \in 2..Len(last.steps) : last.steps[i].pool # "none"
    /\ ~Parses(last.sql) =>
          /\ Dispatches(last) = <<>>
          /\ last.proxy = NoProxy
          /\ last.op = "Query" => last.err.msg = ParseFailureText
          /\ last.op = "QueryRow" => Scan(last.row).msg = ParseFailureText

\* Query of text that is not SQL on a connector that has both pools.
C5_Witness ==
  /\ last.op = "Query"
  /\ last.sql = <<Garbage>>
  /\ reader # Nil
  /\ writer # Nil
  /\ last.err.msg = ParseFailureText
  /\ last.steps = <<Classified>>

\* C6: with both pools present, Query and QueryRow contact the reader only
\* for a statement classified Read and the writer only for one classified
\* Write, and Exec, Begin and BeginFunc contact the writer only, whatever the
\* statement.
C6_OnePoolPerCall ==
  (reader # Nil /\ writer # Nil) =>
    /\ (last.op \in {"Query", "QueryRow"} /\ Parses(last.sql)) =>
          Dispatches(last) =
            <<Dispatch(IF Writing(last.sql) # {} THEN "writer" ELSE "reader", last.op)>>
    /\ last.op \in {"Exec", "Begin", "BeginFunc"} =>
          Dispatches(last) = <<Dispatch("writer", last.op)>>

\* Exec of a SELECT on a connector that has both pools reaches the writer.
C6_Witness ==
  /\ last.op = "Exec"
  /\ last.sql = <<SelectText>>
  /\ reader # Nil
  /\ writer # Nil
  /\ Dispatches(last) = <<Dispatch("writer", "Exec")>>

\* A step of the caller that ends its NewConnection call.
Returns == main.pc # "idle" /\ main'.pc = "idle"

AllSucceeded == << <<"getValuesAWS", TRUE>>, <<"dbOpen", TRUE>>, <<"Ping", TRUE>> >>

\* C7: NewConnection with a role other than Read, Write and ReadAndWrite
\* returns the error "read, write, or readAndWrite not provided" at once,
\* starts no connect task (so no secret fetch, pool open or liveness check)
\* and leaves both pool fields as they are.
C7_InvalidRoleRejected ==
  [][(main' # main /\ main'.dp \notin {Read, Write, ReadAndWrite}) =>
       /\ main'.pc # "range"
       /\ reader' = reader
       /\ writer' = writer
       /\ pools' = pools
       /\ \A r \in Roles : task'[main'.call][r] = NoTask
       /\ main'.pc = "idle" =>
            main'.ret.msg = "read, write, or readAndWrite not provided"]_vars

\* The second call on a connector that holds a reader names no valid role.
C7_Witness ==
  /\ main.pc = "idle"
  /\ main.call = 2
  /\ main.dp = InvalidRole
  /\ main.ret.msg = "read, write, or readAndWrite not provided"
  /\ reader # Nil
  /\ \A r \in Roles : task[2][r] = NoTask

\* C8: NewConnection returns nil if and only if the secret fetch, the pool
\* open and the liveness check of every requested role succeeded; when it
\* returns nil the field of every requested role holds a pool that passed its
\* liveness check, and an error it returns is the failure of a sub-task.
C8_NilIffAllSucceeded ==
  [][(Returns /\ main.pc = "range") =>
       LET c == main.call
           req == Requested(main.dp)
       IN
       /\ main'.ret = NoError <=> \A r \in req : task'[c][r].hist = AllSucceeded
       /\ main'.ret = NoError =>
            \A r \in req : /\ Slot(r)' # Nil
                            /\ pools'[Slot(r)'].pinged
       /\ main'.ret # NoError =>
            \E r \in req : /\ task'[c][r].err = main'.ret
                            /\ task'[c][r].hist # AllSucceeded]_vars

\* C9: NewConnection(ReadAndWrite) returns only after both connect attempts
\* have run to completion; once NewConnection has returned, no connect task
\* it started is still running.
C9_NoTaskAfterReturn ==
  main.pc = "idle" =>
    \A c \in Calls, r \in Roles : task[c][r].pc \in {"none", "done"}

\* C10: when NewConnection(Read) or NewConnection(Write) fails, it returns
\* the failure of the step that failed and the field of that role holds no
\* pool afterwards.
C10_NoPoolLeftOnFailure ==
  [][(Returns /\ main.pc = "range" /\ main.dp \in Roles /\ main'.ret # NoError) =>
       /\ main'.ret = task[main.call][main.dp].err
       /\ Slot(main.dp)' = Nil]_vars

\* C11: after a NewConnection(ReadAndWrite) that returned an error because
\* the secret fetch of its Read task failed, while its Write task went
\* through all of its steps, a call of Exec or Begin returns
\* ErrWriterNotCreated and contacts no pool: the failed call leaves no
\* usable write pool.
C11_NoWritePoolAfterFailedOpen ==
  (/\ main.pc = "idle"
   /\ main.dp = ReadAndWrite
   /\ main.ret # NoError
   /\ task[main.call][Read].hist = << <<"getValuesAWS", FALSE>> >>
   /\ task[main.call][Write].hist = AllSucceeded) =>
    \A answer \in PoolAnswers :
      /\ BeginResult(answer).err = ErrWriterNotCreated
      /\ Dispatches(BeginResult(answer)) = <<>>
      /\ ExecResult(<<InsertText>>, answer).err = ErrWriterNotCreated
      /\ Dispatches(ExecResult(<<InsertText>>, answer)) = <<>>

\* C12: every connect task NewConnection starts terminates: a task that has
\* an error to send on the result channel of its call is received by that
\* call, so no task is left waiting to send on the channel of a call that
\* has returned, also when both tasks of a ReadAndWrite call fail.
C12_NoSenderAfterReturn ==
  \A c \in Calls, r \in Roles :
    task[c][r].pc \in {"send", "blocked"} => (main.call = c /\ main.pc = "range")

\* C13: in NewConnection and in Ping the result channel is closed only
\* after every task of the call has finished, so no task ever sends on a
\* closed channel.
C13_ClosedAfterAllTasks ==
  \A c \in Calls :
    errs[c] = "closed" => \A r \in Roles : task[c][r].pc \in {"none", "done"}

\* C14: Ping returns nil only when every pool that is present has answered
\* its liveness check, returns nil when no pool is present, and otherwise
\* returns the error of a liveness check that failed.
C14_PingNilIffAllAnswered ==
  [][(main.pc = "pingRange" /\ main'.pc = "idle") =>
       LET c == main.call
           present == {r \in Roles : Slot(r) # Nil}
       IN
       /\ main'.ret = NoError =>
            \A r \in present : task'[c][r].hist = << <<"Ping", TRUE>> >>
       /\ present = {} => main'.ret = NoError
       /\ main'.ret # NoError =>
            \E r \in present : /\ task'[c][r].err = main'.ret
                                /\ task'[c][r].hist = << <<"Ping", FALSE>> >>]_vars

\* C15: Close calls Close on exactly the pools that are present, reader
\* first, and leaves them closed; it does nothing for a pool that is absent
\* and changes no pool field; it never panics, whether both, one or no pool
\* is present and whether or not the pools have been closed before.
C15_CloseClosesPresentPools ==
  [][last'.op = "Close" =>
       LET present == {r \in Roles : Slot(r) # Nil} IN
       /\ ~crashed'
       /\ reader' = reader
       /\ writer' = writer
       /\ {last'.steps[i].pool : i \in 1..Len(last'.steps)} =
            {IF r = Read THEN "reader" ELSE "writer" : r \in present}
       /\ Len(last'.steps) = Cardinality(present)
       /\ \A r \in present : pools'[Slot(r)].state = "closed"
       /\ \A p \in PoolIds \ {Slot(r) : r \in present} : pools'[p] = pools[p]]_vars

\* Close is called again on a connector whose only pool, the reader, has
\* been closed by an earlier Close.
C15_Witness ==
  /\ ~crashed
  /\ last.op = "Close"
  /\ last.steps = <<[pool |-> "reader", call |-> "Close", was |-> "closed"]>>
  /\ writer = Nil
  /\ pools[reader].state = "closed"

\* C17: when a pool is about to open a connection, its BeforeConnect calls
\* GetRDSAuthToken if and only if the clock is after the cached expiry
\* ds.exp, which is the zero time until the first token has been minted; a
\* mint call is started nowhere else, and a password becomes a token only
\* by such a call.
C17_MintIffExpired ==
  [][\A p \in PoolIds, a \in Attempts :
       /\ (attempt[p][a].pc = "idle" /\ attempt'[p][a].pc # "idle") =>
            (attempt'[p][a].pc = "GetRDSAuthToken" <=> clock.now > ds[p].exp)
       /\ (attempt[p][a].pc # "GetRDSAuthToken" /\ attempt'[p][a].pc = "GetRDSAuthToken") =>
            attempt[p][a].pc = "idle"
       /\ (attempt[p][a].password.text # "token" /\ attempt'[p][a].password.text = "token") =>
            attempt[p][a].pc = "GetRDSAuthToken"]_vars

\* A pool that is installed and has cached an expiry calls GetRDSAuthToken
\* again for a connection it opens after that expiry.
C17_Witness ==
  \E p \in PoolIds, a \in Attempts :
    /\ pools[p].state = "open"
    /\ Slot(p[2]) = p
    /\ ds[p].exp > ZeroTime
    /\ clock.now > ds[p].exp
    /\ attempt[p][a].pc = "GetRDSAuthToken"

\* C18: when BeforeConnect returns nil, the password the connection attempt
\* presents is a token of the authority that has not expired, and never the
\* password of the connection string.
C18_TokenPresented ==
  [][\A p \in PoolIds, a \in Attempts :
       (attempt[p][a].pc # "connect" /\ attempt'[p][a].pc = "connect") =>
         /\ attempt'[p][a].password # Placeholder
         /\ attempt'[p][a].password.text = "token"
         /\ clock'.now < attempt'[p][a].password.signed + TokenLifetime]_vars

\* C19: the expiry BeforeConnect caches after a mint is earlier than the
\* time at which the authority stops accepting the token, which is the time
\* the token was signed plus TokenLifetime.
C19_ExpiryBeforeRejection ==
  [][\A p \in PoolIds, a \in Attempts :
       (attempt[p][a].pc = "ds.exp" /\ attempt'[p][a].pc = "connect") =>
         ds'[p].exp < attempt[p][a].password.signed + TokenLifetime]_vars

\* C20: a connection attempt whose call of GetRDSAuthToken failed goes on
\* to return that error from BeforeConnect and is given up; none of its
\* steps changes the cached expiry ds.exp or the fields reader and writer.
C20_MintFailureAborts ==
  [][\A p \in PoolIds, a \in Attempts :
       (attempt[p][a].password.text = "" /\ attempt'[p][a] # attempt[p][a]) =>
         /\ attempt'[p][a].pc \in {"return err", "idle"}
         /\ attempt'[p][a].pc = "idle" => ds[p].err = MintErr(p, a)
         /\ ds'[p].exp = ds[p].exp
         /\ reader' = reader
         /\ writer' = writer]_vars

\* C21: while NewConnection or Ping waits for its tasks and the context of
\* the call is done, the call is able to return an error that is the
\* cancellation error of the context, whatever its tasks are doing: it does
\* not have to wait for a secret fetch, a pool open or a liveness check to
\* return first.
C21_ReturnsOnCancel ==
  (main.pc \in {"range", "pingRange"} /\ ctx[main.call] # NoError) =>
    ENABLED (/\ \/ \E r \in Roles : NewConnectionReceive(r)
                \/ \E r \in Roles : PingReceive(r)
                \/ NewConnectionClosed
                \/ PingClosed
             /\ main'.pc = "idle"
             /\ ErrorsIs(main'.ret, ctx[main.call]))

\* C22: when Query or QueryRow reports that the SQL does not parse, the
\* error it returns (for QueryRow, the error Scan of the row returns) has the
\* contextual text before the text of the parser error, and errors.Is finds
\* the parser error in it.
C22_ParseErrorKeepsCause ==
  (last.op \in {"Query", "QueryRow"} /\ ~Parses(last.sql)) =>
    LET e == IF last.op = "Query" THEN last.err ELSE Scan(last.row) IN
    /\ e.msg = ParseFailureText
    /\ ErrorsIs(e, Parse(last.sql).err)

\* The steps of a connect task, in the order of the code.
ConnectSteps == <<"getValuesAWS", "dbOpen", "Ping">>

\* C23: the steps a connect task has taken are a secret fetch, then a pool
\* open, then a liveness check, each at most once and each only after the
\* one before it has succeeded; the error a task holds is the error its
\* failed step produced, not wrapped; and an error NewConnection has
\* returned for a valid role is, unchanged, the error of one of its tasks.
C23_OneAttemptPerStep ==
  /\ \A c \in Calls, r \in Roles :
       LET h == task[c][r].hist
           n == Len(h)
       IN
       /\ n <= Len(ConnectSteps)
       /\ \A i \in 1..n : /\ h[i][1] = ConnectSteps[i]
                           /\ i < n => h[i][2]
       /\ task[c][r].err # NoError <=> (n > 0 /\ ~h[n][2])
       /\ task[c][r].err # NoError =>
            /\ task[c][r].err.id = h[n][1] \o "@call" \o ToString(c) \o "/" \o r
            /\ task[c][r].err.cause = {}
            /\ task[c][r].pc \in {"send", "done"}
  /\ (main.pc = "idle" /\ main.dp \in {Read, Write, ReadAndWrite} /\ main.ret # NoError) =>
       \E r \in Requested(main.dp) : task[main.call][r].err = main.ret

\* NewConnection(ReadAndWrite) has returned the error of the pool open of
\* its Write task, whose secret fetch had succeeded.
C23_Witness ==
  /\ main.pc = "idle"
  /\ main.dp = ReadAndWrite
  /\ main.ret = task[main.call][Write].err
  /\ main.ret.id = "dbOpen@call" \o ToString(main.call) \o "/" \o Write
  /\ task[main.call][Write].hist = << <<"getValuesAWS", TRUE>>, <<"dbOpen", FALSE>> >>

\* The secret a pool of role r has to be opened with.
SecretOf(r) == IF r = Read THEN "core_iam_user_read" ELSE "core_iam_user_write"

\* C24: a call of NewConnection has started connect tasks for exactly the
\* roles it was asked for, one task each (the counter of its WaitGroup is
\* the number of its tasks that have not ended); every pool has been opened
\* with the secret of the role of the task that opened it; and the reader
\* field only ever holds a pool a Read task opened with the read secret, the
\* writer field one a Write task opened with the write secret.
C24_RoleKeyedTasksAndSlots ==
  /\ (main.call > 0 /\ main.pc \in {"range", "idle"} /\ main.dp # PingCall) =>
       /\ {r \in Roles : task[main.call][r].pc # "none"} = Requested(main.dp)
       /\ main.pc = "range" =>
            wg[main.call] =
              Cardinality({r \in Roles : task[main.call][r].pc \notin {"none", "done"}})
  /\ \A p \in PoolIds :
       pools[p].state # "unopened" => pools[p].secret = SecretOf(p[2])
  /\ \A r \in Roles :
       Slot(r) # Nil => /\ Slot(r)[2] = r
                        /\ pools[Slot(r)].state # "unopened"
                        /\ pools[Slot(r)].secret = SecretOf(r)
                        /\ pools[Slot(r)].secret # SecretOf(CHOOSE o \in Roles : o # r)

\* A NewConnection(ReadAndWrite) has installed both pools.
C24_Witness ==
  /\ main.dp = ReadAndWrite
  /\ main.pc = "idle"
  /\ main.ret = NoError
  /\ reader = <<main.call, Read>>
  /\ writer = <<main.call, Write>>
  /\ pools[reader].secret = "core_iam_user_read"
  /\ pools[writer].secret = "core_iam_user_write"

\* The steps of BeforeConnect from the comparison of the clock with ds.exp
\* to its return, in which it reads and writes ds.exp and err.
InBeforeConnect == {"GetRDSAuthToken", "err != nil", "return err", "ds.exp"}

\* C25: of the connection attempts of one pool, at most one at a time is
\* inside the part of BeforeConnect that has found the cached expiry passed
\* and mints a token, checks the shared variable err and writes ds.exp.
C25_RefreshNotConcurrent ==
  \A p \in PoolIds :
    Cardinality({a \in Attempts : attempt[p][a].pc \in InBeforeConnect}) <= 1

\* The level the value of LOG_LEVEL names.
LevelNamed(ll) ==
  IF ~ll.ok THEN InfoLevel
  ELSE IF ll.val \in Spellings(DebugWord) THEN DebugLevel
  ELSE IF ll.val \in Spellings(WarnWord) THEN WarnLevel
  ELSE IF ll.val \in Spellings(ErrorWord) THEN ErrorLevel
  ELSE InfoLevel

\* C29: NewLogger returns a logger and no error; the level of the logger
\* is the one LOG_LEVEL names in any spelling of capital and small letters,
\* and info when LOG_LEVEL is not set or names no level; the logger has that
\* level enabled, and no level below it.
C29_LevelFromEnvironment ==
  out.op = "NewLogger" =>
    /\ out.err = NoError
    /\ out.logger # Nil
    /\ out.logger[1].level = LevelNamed(out.env)
    /\ \A lvl \in {DebugLevel, InfoLevel, WarnLevel, ErrorLevel} :
         Enabled(out.logger, lvl) <=> lvl >= LevelNamed(out.env)

\* LOG_LEVEL=DEBUG gives a logger that has the debug level enabled.
C29_Witness ==
  /\ out.op = "NewLogger"
  /\ out.env = Setenv(<<"D", "E", "B", "U", "G">>)
  /\ out.logger # Nil
  /\ Enabled(out.logger, DebugLevel)

\* C30: after NewConn has returned nil on a RedisConn value, that value
\* holds a client, the one NewConn made, so that Set, Get and Expire on the
\* value have a connection to work on.
C30_ConnectedAfterNewConn ==
  (conn.op = "NewConn" /\ conn.err = NoError) =>
    /\ conn.client # Nil
    /\ conn.client = NewClient(env["REDIS_HOST"].val \o <<":">> \o env["REDIS_PORT"].val)

\* Whether json.Marshal can encode v: it holds no channel and does not
\* reach itself.
RECURSIVE Marshallable(_)
Marshallable(v) ==
  /\ v.kind \notin {"chan", "cyclic"}
  /\ v.kind = "object" =>
       \A i \in 1..Len(v.entries) : Marshallable(v.entries[i][2])

\* C26: JSONResponse(code, body) returns a nil error and the header
\* Content-Type: application/json; for a body that can be marshalled the
\* status code is code and the body is the JSON of body, and for any other
\* body the status code is 500 and the body is the fixed error body.
C26_JSONResponse ==
  out.op = "JSONResponse" =>
    /\ out.err = NoError
    /\ DOMAIN out.resp.Headers = {"Content-Type"}
    /\ out.resp.Headers["Content-Type"] = "application/json"
    /\ IF Marshallable(out.body)
         THEN /\ out.resp.StatusCode = out.code
              /\ Marshal(out.body).err = NoError
              /\ out.resp.Body = Marshal(out.body).json
         ELSE /\ out.resp.StatusCode = 500
              /\ Text(out.resp.Body) =
                   "{\"error\":{\"code\":500,\"message\":\"could not create JSON response\","
                     \o "\"status\":\"Internal Server Error\"}}"

\* JSONResponse(200, c1) for a struct c1 that reaches itself.
C26_Witness ==
  /\ out.op = "JSONResponse"
  /\ out.code = 200
  /\ out.body = GoObject(<< <<"id", GoInt(1)>>, <<"next", GoCyclic>> >>)
  /\ out.resp.StatusCode = 500
  /\ out.err = NoError

\* The piece of a string an escape in a JSON string literal stands for.
UnescapePiece(tok) ==
  CASE tok = "\\\"" -> DoubleQuote
    [] tok = "\\u003c" -> LessThan
    [] tok = "\\ufffd" -> ReplacementChar
    [] OTHER -> tok

Punctuation(tok) == [type |-> "punctuation or number", val |-> <<tok>>]
StringItem(str) == [type |-> "string", val |-> str]

RECURSIVE Lex(_, _)
\* JSON text read from token i: its punctuation and numbers, and the
\* strings its string literals stand for.
Lex(toks, i) ==
  IF i > Len(toks) THEN <<>>
  ELSE IF toks[i] # DoubleQuote THEN <<Punctuation(toks[i])>> \o Lex(toks, i + 1)
  ELSE LET closing == {j \in (i + 1)..Len(toks) : toks[j] = DoubleQuote} IN
       IF closing = {} THEN <<[type |-> "unterminated string", val |-> <<>>]>>
       ELSE LET j == CHOOSE j \in closing : \A k \in closing : j <= k IN
            <<StringItem([k \in 1..(j - i - 1) |-> UnescapePiece(toks[i + k])])>>
              \o Lex(toks, j + 1)

\* {"error":{"code":code,"message":message,"status":status}}
ErrorBody(code, message, status) ==
  <<Punctuation("{"), StringItem(<<"error">>), Punctuation(":"),
    Punctuation("{"), StringItem(<<"code">>), Punctuation(":"),
    Punctuation(ToString(code)), Punctuation(","),
    StringItem(<<"message">>), Punctuation(":"), StringItem(message), Punctuation(","),
    StringItem(<<"status">>), Punctuation(":"), StringItem(status),
    Punctuation("}"), Punctuation("}")>>

\* The codes that are HTTP status codes, among those used here.
ValidCodes == {200, 400, 404, 500}

\* C27 as stated: JSONErrResponse(code, message) returns a nil error and a
\* response whose status code is code and whose body is the JSON object
\* {"error":{"code":code,"message":message,"status":text}}, text being the
\* status text of code and the empty string for a code that is not an HTTP
\* status code.
C27_ErrBodyHasMessage ==
  out.op = "JSONErrResponse" =>
    /\ out.err = NoError
    /\ out.resp.StatusCode = out.code
    /\ Lex(out.resp.Body, 1) = ErrorBody(out.code, out.message, StatusText(out.code))
    /\ out.code \notin ValidCodes => StatusText(out.code) = <<>>

\* strings.ToValidUTF8(message, string(utf8.RuneError))
ToValidUTF8(message) ==
  [i \in 1..Len(message) |->
     IF message[i] = InvalidByte THEN ReplacementChar ELSE message[i]]

\* C27, amended: as stated, where the message in the body is message with
\* every byte that is not valid UTF-8 replaced by U+FFFD, which is message
\* itself when message is valid UTF-8.
C27_ErrBodyHasValidMessage ==
  out.op = "JSONErrResponse" =>
    /\ out.err = NoError
    /\ out.resp.StatusCode = out.code
    /\ DOMAIN out.resp.Headers = {"Content-Type"}
    /\ Lex(out.resp.Body, 1) =
         ErrorBody(out.code, ToValidUTF8(out.message), StatusText(out.code))
    /\ ToValidUTF8(out.message) = out.message <=>
         \A i \in 1..Len(out.message) : out.message[i] # InvalidByte
    /\ out.code \in ValidCodes => StatusText(out.code) # <<>>
    /\ out.code \notin ValidCodes => StatusText(out.code) = <<>>

\* JSONErrResponse(42, ""): 42 is not an HTTP status code.
C27_Witness ==
  /\ out.op = "JSONErrResponse"
  /\ out.code = 42
  /\ out.message = <<>>
  /\ out.resp.StatusCode = 42
  /\ Text(out.resp.Body) = "{\"error\":{\"code\":42,\"message\":\"\",\"status\":\"\"}}"
\* C28: NewStoriServices returns either a nil error with a Logger that is
\* not nil and with each optional service (DB, LambdaAPI, SNSAPI, Redis)
\* not nil only if the configuration asked for it, or an error that is not
\* nil with the zero StoriServices value; with the zero configuration it
\* returns no error, a Logger that is not nil and the four optional
\* services nil.
C28_ServicesOrError ==
  out.op = "NewStoriServices" =>
    /\ \/ /\ out.err = NoError
          /\ out.services.Logger # Nil
          /\ out.services.DB # Nil => out.config.DBProxy # Nil
          /\ out.services.LambdaAPI # Nil => out.config.Lambda
          /\ out.services.SNSAPI # Nil => out.config.SNS
          /\ out.services.Redis # Nil => out.config.RedisCache
       \/ /\ out.err # NoError
          /\ out.services = ZeroServices
    /\ out.config = ZeroConfig =>
         /\ out.err = NoError
         /\ out.services.Logger # Nil
         /\ out.services.DB = Nil
         /\ out.services.LambdaAPI = Nil
         /\ out.services.SNSAPI = Nil
         /\ out.services.Redis = Nil

\* The Redis client could not be made after the logger, the database
\* connection and the two clients had been: nothing of them is returned.
C28_Witness ==
  /\ out.op = "NewStoriServices"
  /\ out.config = [DBProxy |-> <<ReadAndWrite>>, Lambda |-> TRUE,
                   RedisCache |-> TRUE, SNS |-> TRUE]
  /\ out.err.msg = "error creating Redis client: host path is missing"
  /\ out.services = ZeroServices

\* C31: the Redis wrapper looks at its input before it contacts Redis.
\* NewConn without REDIS_HOST returns the error "host path is missing", Set
\* with an empty key or an empty value returns an error, Get and Expire
\* with an empty key return an error; in each of these cases no command is
\* sent to a Redis client (and the call does not panic on a nil client).
C31_ValidatesBeforeRedis ==
  [][/\ (NewConn /\ ~env["REDIS_HOST"].ok) =>
          /\ conn'.err.msg = "host path is missing"
          /\ conn'.used = Nil
     /\ \A k \in RedisKeys, d \in RedisValues :
          (Set(k, d) /\ (k = <<>> \/ d = <<>>)) =>
            /\ conn'.err # NoError
            /\ conn'.used = Nil
            /\ ~crashed'
     /\ \A k \in RedisKeys :
          ((Get(k) \/ Expire(k)) /\ k = <<>>) =>
            /\ conn'.err # NoError
            /\ conn'.used = Nil
            /\ ~crashed']_vars

\* Set with a key and an empty value on a connection that has a client.
C31_Witness ==
  /\ conn.op = "Set"
  /\ conn.args = << <<"k">>, <<>> >>
  /\ conn.client = MockClient
  /\ conn.err.msg = "value parameter missing"
  /\ conn.used = Nil

\* The three documented forms of an S3 URL:
\* https://s3.amazonaws.com/[bucket]/[key], https://[bucket].s3.amazonaws.com/[key]
\* and s3://[bucket]/[key], with a bucket name and a key that are not empty.
S3Names == {"bucket", "key", "example.com"}
IsKey(str) ==
  /\ str # <<>>
  /\ \A i \in 1..Len(str) : IF i % 2 = 1 THEN str[i] \in S3Names ELSE str[i] = "/"
DocumentedForm(s3URL) ==
  \/ /\ Len(s3URL) >= 7
     /\ SubSeq(s3URL, 1, 4) = <<"https:", "//", "s3.amazonaws.com", "/">>
     /\ s3URL[5] \in S3Names
     /\ s3URL[6] = "/"
     /\ IsKey(DropFirst(s3URL, 6))
  \/ /\ Len(s3URL) >= 6
     /\ SubSeq(s3URL, 1, 2) = <<"https:", "//">>
     /\ s3URL[3] \in S3Names
     /\ SubSeq(s3URL, 4, 5) = <<".s3.amazonaws.com", "/">>
     /\ IsKey(DropFirst(s3URL, 5))
  \/ /\ Len(s3URL) >= 5
     /\ SubSeq(s3URL, 1, 2) = <<"s3:", "//">>
     /\ s3URL[3] \in S3Names
     /\ s3URL[4] = "/"
     /\ IsKey(DropFirst(s3URL, 4))

\* C32: ParseS3URL returns an error, and neither bucket nor key, for every
\* URL that has none of the three documented forms, and it panics on no
\* URL, one with an empty path included.
C32_RejectsOtherURLs ==
  out.op = "ParseS3URL" =>
    /\ ~crashed
    /\ ~DocumentedForm(out.s3URL) =>
         /\ out.err # NoError
         /\ out.obj.BucketName = <<>>
         /\ out.obj.Key = <<>>

\* C33: a NewConnection call that fails leaves every pool that an earlier
\* successful NewConnection installed present and unchanged: the failed
\* attempt for a role does not replace that role's pool by an absent one
\* and does not drop an open pool without closing it. Call 1 is the earlier
\* successful call, call 2 the one that fails.
C33_FailureKeepsEarlierPools ==
  \A r \in Roles :
    (/\ ncalls = 2
     /\ main.pc = "idle"
     /\ main.ret # NoError
     /\ pools[<<1, r>>].state # "unopened") =>
      /\ Slot(r) = <<1, r>>
      /\ pools[<<1, r>>] = [state |-> "open", secret |-> secretNames[r], pinged |-> TRUE]

\* The other role.
Other(r) == IF r = Read THEN Write ELSE Read

\* C34: NewConnection(Read) never changes the writer slot and
\* NewConnection(Write) never changes the reader slot, whether the call
\* succeeds or fails. Call 2 is the call; the slot of the other role holds
\* what call 1 left in it, the pool it opened or nothing, at every moment
\* of the call and after it.
C34_OtherSlotUntouched ==
  \A r \in Roles :
    (ncalls = 2 /\ main.dp = r) =>
      IF pools[<<1, Other(r)>>].state = "unopened"
        THEN Slot(Other(r)) = Nil
        ELSE /\ Slot(Other(r)) = <<1, Other(r)>>
             /\ pools[<<1, Other(r)>>] =
                  [state |-> "open", secret |-> secretNames[Other(r)], pinged |-> TRUE]

\* NewConnection(Read) has failed and has put nil where the reader was; the
\* writer is the one of the first call.
C34_Witness ==
  /\ ncalls = 2
  /\ main = [pc |-> "idle", call |-> 2, dp |-> Read, ret |-> main.ret]
  /\ main.ret # NoError
  /\ reader = Nil
  /\ pools[<<1, Read>>].state = "open"
  /\ writer = <<1, Write>>

\* C35: the read pool and the write pool of a connector each have their own
\* credential record and cached expiry. A step of a connection attempt of
\* one pool, the token refresh included, changes neither the record nor the
\* attempts of the other pool, and no step of an attempt waits for the
\* other pool: the pools share no lock or other state that changes.
C35_PoolsIndependent ==
  /\ [](\A p \in PoolIds, a \in Attempts :
          /\ attempt[p][a].pc = "GetRDSAuthToken" => ENABLED GetRDSAuthToken(p, a)
          /\ attempt[p][a].pc = "err != nil" => ENABLED BeforeConnectErr(p, a)
          /\ attempt[p][a].pc = "return err" => ENABLED BeforeConnectReturn(p, a)
          /\ attempt[p][a].pc = "ds.exp" => ENABLED BeforeConnectExp(p, a)
          /\ attempt[p][a].pc = "connect" => ENABLED ConnectAttempt(p, a))
  /\ [][\A p \in PoolIds :
          attempt'[p] # attempt[p] =>
            \A q \in PoolIds \ {p} : ds'[q] = ds[q] /\ attempt'[q] = attempt[q]]_vars

\* The reader has refreshed its token and moved its expiry while an attempt
\* of the writer is about to move the writer's.
C35_Witness ==
  /\ ds[<<1, Read>>].exp > StartClock.now + TokenCache
  /\ ds[<<1, Write>>].exp = StartClock.now + TokenCache
  /\ \E a \in Attempts : attempt[<<1, Write>>][a].pc = "ds.exp"

\* The pools a call was sent to, in order.
RoutedTo(call) == [i \in 1..Len(Dispatches(call)) |-> Dispatches(call)[i].pool]

\* What Query returned (q) and what QueryRow returned (qr) agree.
SameDecision(q, qr) ==
  /\ q.proxy = qr.proxy
  /\ RoutedTo(q) = RoutedTo(qr)
  /\ (q.err # NoError) <=> (Scan(qr.row) # NoError)
  /\ RoutedTo(q) = <<>> =>
       /\ qr.row.type = "DBProxyError"
       /\ Scan(qr.row).msg = q.err.msg
       /\ q.err \in {ErrReaderNotCreated, ErrWriterNotCreated} => Scan(qr.row) = q.err

\* C36: for every SQL string and every pool configuration Query and
\* QueryRow make the same routing decision. QueryRow's row yields an error
\* at Scan exactly when Query returns an error, the same sentinel in the
\* routing cases and the same text for SQL that does not parse; otherwise
\* both send the statement to the same pool. Each call made is compared
\* with the other method called with the same SQL on the same connector,
\* the pool giving the same answer.
C36_SameRouting ==
  /\ last.op = "Query" => SameDecision(last, QueryRowResult(last.sql, last.err))
  /\ last.op = "QueryRow" => SameDecision(QueryResult(last.sql, Scan(last.row)), last)

\* QueryRow of an INSERT on a connector that has a reader only: Query
\* returns the same sentinel.
C36_Witness ==
  /\ last.op = "QueryRow"
  /\ last.sql = <<InsertText>>
  /\ reader # Nil
  /\ writer = Nil
  /\ Scan(last.row) = ErrWriterNotCreated
  /\ QueryResult(last.sql, NoError).err = ErrWriterNotCreated

\* C37: Close never changes which pool slots are present. After Close the
\* reader and writer slots hold the same pools as before, now closed, so a
\* later Query, Exec or Ping is sent to the closed pool and does not return
\* ErrReaderNotCreated or ErrWriterNotCreated: it gets the error of the
\* closed pool.
C37_CloseKeepsSlots ==
  /\ [][/\ last'.op = "Close" => reader' = reader /\ writer' = writer
        /\ \A r \in Roles :
             (Slot(r) # Nil /\ pools[Slot(r)].state = "closed") =>
               /\ PingProbe(r) => task'[main.call][r].pc = "pingProxy"
               /\ \A c \in Calls :
                    pingProxy(c, r) =>
                      /\ ~crashed'
                      /\ task'[c][r].err # NoError
                      /\ task'[c][r].err \notin {ErrReaderNotCreated, ErrWriterNotCreated}]_vars
  /\ [](/\ \A p \in PoolIds : pools[p].state = "closed" => Slot(p[2]) = p
        /\ \A r \in Roles :
             (Slot(r) # Nil /\ pools[Slot(r)].state = "closed") =>
               LET slot == IF r = Read THEN "reader" ELSE "writer" IN
               /\ (last.op = "Query" /\ last.proxy = r) =>
                    /\ RoutedTo(last) = <<slot>>
                    /\ last.err = PoolErr
               /\ (last.op = "Exec" /\ r = Write) =>
                    /\ RoutedTo(last) = <<slot>>
                    /\ last.err = PoolErr
               /\ main.dp = PingCall =>
                    main.ret \notin {ErrReaderNotCreated, ErrWriterNotCreated})

\* A SELECT is sent to the reader that Close has closed, and the pool
\* refuses it.
C37_Witness ==
  /\ last.op = "Query"
  /\ last.sql = <<SelectText>>
  /\ reader # Nil
  /\ pools[reader].state = "closed"
  /\ RoutedTo(last) = <<"reader">>
  /\ last.err = PoolErr

\* C38: whenever getProxyFromSQL returns without error its result is Read
\* or Write, never ReadAndWrite or the empty role, so that the branch
\* "error getting db proxy" of Query and QueryRow is never taken, and the
\* only errors the two produce before they contact a pool are the parse
\* error and the two sentinels of an absent pool.
C38_ClassifiedReadOrWrite ==
  last.op \in {"Query", "QueryRow"} =>
    LET p == getProxyFromSQL(last.sql)
        e == IF last.op = "Query" THEN last.err ELSE Scan(last.row)
    IN
    /\ p.err = NoError => p.proxy \in {Read, Write}
    /\ p.err = NoError <=> Parses(last.sql)
    /\ last.proxy = p.proxy
    /\ e.msg # ErrGettingProxy.msg
    /\ Dispatches(last) = <<>> =>
         \/ ~Parses(last.sql) /\ e.msg = ParseFailureText
         \/ Parses(last.sql) /\ p.proxy = Read /\ reader = Nil /\ e = ErrReaderNotCreated
         \/ Parses(last.sql) /\ p.proxy = Write /\ writer = Nil /\ e = ErrWriterNotCreated

\* Query of a batch of several statements, one of which writes, on a
\* connector without a writer.
C38_Witness ==
  /\ last.op = "Query"
  /\ Len(Parse(last.sql).stmts) > 1
  /\ getProxyFromSQL(last.sql) = [proxy |-> Write, err |-> NoError]
  /\ reader # Nil
  /\ writer = Nil
  /\ last.err = ErrWriterNotCreated

====
